---------------------------- MODULE Spec2Model ----------------------------
(***************************************************************************)
(* A model of the document categorization pipeline: the cosine-similarity  *)
(* label assigner (TopicModeler.assign_predefined_labels), the             *)
(* hierarchical assigner (TopicModeler.assign_labels), the keyword         *)
(* extractor (TopicModeler.extract_keywords), the batch driver             *)
(* (main.process_documents), the unsupervised path                         *)
(* (models.TopicModeler.fit_transform, Categorizer.assign_automatic_labels,*)
(* IntegratedProcessor.run, AutoTopicModeler.assign_topic_names), the      *)
(* chunker (Utils.chunk_document, that is textwrap.wrap), the document     *)
(* loader (DocumentLoader), the vector store handler (DatabaseHandler), the*)
(* summarizer (TransformersSummarizer.summarize) and the endpoint          *)
(* POST /process/predefined of the API.                                    *)
(*                                                                         *)
(* Embeddings are vectors of two integer coordinates.  A similarity score  *)
(* is kept exactly: the cosine c of two vectors is the pair <<n, d>> with   *)
(* n/d = sign(c) * c^2 in lowest terms (x |-> sign(x) * x^2 is strictly      *)
(* increasing, so equality and order of scores are those of the cosines).  *)
(* The IEEE outcome of a division 0/0, NaN, is the score <<0, 0>>.          *)
(* Rounding and overflow of the floating-point formats are not modelled.   *)
(***************************************************************************)
EXTENDS Integers, Sequences, FiniteSets, TLC

VARIABLES
    embeddings,     \* the batch of document embeddings handed to the assigner
    tree,           \* predefined_topics: main topics in order, and their subcategories
    encoder,        \* the embedding capability on label strings (embedding_model.encode)
    apc,            \* position of the assigner call: "idle" or "done"
    call,           \* the call made: which method, and its topics argument
    result,         \* what the call returned or raised
    encodeCalls,    \* number of embedding_model.encode invocations made by the call
    kpc,            \* position of the extract_keywords call: "idle" or "done"
    chunkOutcomes,  \* what the keyphrase capability did on each chunk of the text
    all_keywords,   \* the phrases extract_keywords had collected when it left its loop
    kwResult,       \* what extract_keywords returned or raised
    ppc,            \* position of process_documents
    documents,      \* the loaded documents (their file names, in listing order)
    extracted_keywords_list,    \* one joined keyword string per document so far
    kwFailed,       \* documents for which the keyphrase capability raised
    keyword_embeddings,         \* the embeddings of the keyword strings
    assigned,       \* what assign_labels returned to process_documents
    collection,     \* the points of the Qdrant collection, by id
    organized,      \* the files copied to the output folder, with their folders
    exit,           \* where process_documents returned
    tpc,            \* position of the unsupervised call: "idle", "fitted" or "done"
    self_documents, \* the documents handed to the unsupervised path
    fit,            \* what the clustering capability does when it is fitted
    tcall,          \* the unsupervised call made, and its use_zero_shot argument
    topic_labels,   \* Categorizer.topic_labels: cluster id -> label
    classifier_calls,   \* the zero-shot classifier calls made, with what they returned
    tresult,        \* what the unsupervised call returned or raised
    csv_files,      \* the result tables written to RESULTS_DIR
    topic_name_mapping, \* AutoTopicModeler.topic_name_mapping: cluster id -> name
    topic_names,    \* AutoTopicModeler.topic_names: one name per document
    cpc,            \* position of the chunk_document call: "idle" or "done"
    text,           \* the text handed to chunk_document
    chunk_size,     \* its chunk_size argument
    chunks,         \* the chunks it returned
    SUPPORTED_EXTENSIONS,   \* DocumentLoader.SUPPORTED_EXTENSIONS, the class attribute
    loaders,        \* the DocumentLoader instances constructed
    file_names,     \* self.file_names of each instance
    loader_documents,       \* self.documents of each instance
    lcall,          \* the last call made on a DocumentLoader, and what it gave
    lcalls,         \* number of calls made on DocumentLoaders
    points,         \* the points of the collection of a DatabaseHandler, by id
    batches,        \* the batches insert_documents was given, in order
    spc,            \* position of get_statistics: "idle", "loop", "done" or "raised"
    ranking,        \* the order in which client.search ranks the points
    total,          \* total of get_statistics (client.count)
    offset,         \* offset of the pagination loop
    stat_topics,    \* topics of get_statistics: payload topic -> count
    stat_subtopics, \* subtopics of get_statistics: payload sub_topic -> count
    visited,        \* the ids of the points the loop has gone through, in order
    sumpc,          \* position of the summarize call: "idle", "done" or "raised"
    texts,          \* the texts handed to summarize
    generated,      \* what the summarization pipeline does on each text
    summaries,      \* the list summarize returned
    response,       \* what POST /process/predefined answered
    runs            \* number of IntegratedProcessor.run calls begun after the first

assignVars == <<embeddings, apc, call, result, encodeCalls>>
modelVars == <<tree, encoder>>
kwVars == <<kpc, chunkOutcomes, all_keywords, kwResult>>
procVars == <<ppc, documents, extracted_keywords_list, kwFailed,
              keyword_embeddings, assigned, collection, organized, exit>>

topicVars == <<tpc, self_documents, fit, tcall, topic_labels, classifier_calls,
               tresult, csv_files, topic_name_mapping, topic_names>>
chunkVars == <<cpc, text, chunk_size, chunks>>

loaderVars == <<SUPPORTED_EXTENSIONS, loaders, file_names, loader_documents,
                lcall, lcalls>>
dbVars == <<points, batches, spc, ranking, total, offset, stat_topics,
            stat_subtopics, visited>>
sumVars == <<sumpc, texts, generated, summaries>>
ioVars == <<loaderVars, dbVars, sumVars>>

vars == <<assignVars, modelVars, kwVars, procVars, topicVars, chunkVars,
          ioVars, response, runs>>

-----------------------------------------------------------------------------
(* Bounds of the model *)

MaxCoord == 2       \* document embedding coordinates range over -MaxCoord..MaxCoord
MaxScale == 3       \* positive scaling constants 1..MaxScale
MaxChunks == 2      \* a text splits into at most MaxChunks chunks
MaxTopN == 2        \* top_n: the capability returns at most MaxTopN phrases per chunk
MaxDocs == 2        \* process_documents loads at most MaxDocs documents

Coord == (0 - MaxCoord)..MaxCoord
Vec == Coord \X Coord
BatchSizes == {0, 1, 2}     \* sizes of the batches handed to the assigner
Batches == UNION {[1..n -> Vec] : n \in BatchSizes}

-----------------------------------------------------------------------------
(* Label trees (predefined_topics) and embedding capabilities *)

NoSub == "None"     \* Python's None: no subcategory

AllLabels == {"Security", "Health", "Cybersecurity", "Mobile Security",
              "Public Health", "Mental Health"}

\* {} : no predefined topics at all
EmptyTree == [keys |-> <<>>, subs |-> [k \in {} |-> <<>>]]

\* {"Security": ["Cybersecurity", "Mobile Security"], "Health": []}
MixedTree ==
    [keys |-> <<"Security", "Health">>,
     subs |-> [k \in {"Security", "Health"} |->
                 IF k = "Security" THEN <<"Cybersecurity", "Mobile Security">>
                 ELSE <<>>]]

\* the dictionary of main.py
FullTree ==
    [keys |-> <<"Security", "Health">>,
     subs |-> [k \in {"Security", "Health"} |->
                 IF k = "Security" THEN <<"Cybersecurity", "Mobile Security">>
                 ELSE <<"Public Health", "Mental Health">>]]

LabelTrees == {EmptyTree, MixedTree, FullTree}

\* label embeddings in general position
EncGeneral ==
    [l \in AllLabels |->
        CASE l = "Security"        -> <<1, 0>>
          [] l = "Health"          -> <<0, 1>>
          [] l = "Cybersecurity"   -> <<1, 1>>
          [] l = "Mobile Security" -> <<1, -1>>
          [] l = "Public Health"   -> <<-1, 1>>
          [] OTHER                 -> <<-1, -2>>]

\* parallel label embeddings of different length: every document ties
EncParallel ==
    [l \in AllLabels |->
        CASE l = "Security"        -> <<1, 0>>
          [] l = "Health"          -> <<2, 0>>
          [] l = "Cybersecurity"   -> <<1, 1>>
          [] l = "Mobile Security" -> <<3, 3>>
          [] l = "Public Health"   -> <<0, 2>>
          [] OTHER                 -> <<0, 1>>]

\* an embedding capability that maps some labels to the zero vector
EncZero ==
    [l \in AllLabels |->
        CASE l = "Security"        -> <<1, 0>>
          [] l = "Health"          -> <<0, 0>>
          [] l = "Cybersecurity"   -> <<1, 2>>
          [] l = "Mobile Security" -> <<0, 0>>
          [] l = "Public Health"   -> <<0, 0>>
          [] OTHER                 -> <<2, 1>>]

Encoders == {EncGeneral, EncParallel, EncZero}

-----------------------------------------------------------------------------
(* Exact arithmetic on similarity scores *)

Abs(x) == IF x < 0 THEN 0 - x ELSE x

RECURSIVE GCD(_, _)
GCD(a, b) == IF b = 0 THEN a ELSE GCD(b, a % b)

NaN == <<0, 0>>
IsNaN(s) == s[2] = 0

\* the real number sign(d) * d^2 / q as a score; q = 0 is a division by zero -> NaN
Score(d, q) ==
    IF q = 0 THEN NaN
    ELSE LET n == IF d < 0 THEN 0 - d * d ELSE d * d
             g == GCD(Abs(n), q)
         IN  <<n \div g, q \div g>>

Zero == <<0, 1>>    \* the score 0.0

\* IEEE a <= b: false when either is NaN
ScoreLE(a, b) == ~IsNaN(a) /\ ~IsNaN(b) /\ a[1] * b[2] <= b[1] * a[2]

Dot(a, b) == a[1] * b[1] + a[2] * b[2]
NormSq(a) == Dot(a, a)


-----------------------------------------------------------------------------
(* The label assigner: TopicModeler.assign_predefined_labels *)

Range(f) == {f[i] : i \in DOMAIN f}

\* Normalize without the division by the norm
NormalizeNone(v) == [v |-> v, n2 |-> 1]

\* v / ||v||, kept as the vector and the square of the norm that divides it
Normalize(v) == [v |-> v, n2 |-> NormSq(v)]

\* np.dot of two normalized rows: Dot(a, b) / (sqrt(a.n2) * sqrt(b.n2))
NormDot(a, b) == Score(Dot(a.v, b.v), a.n2 * b.n2)

\* embedding_model.encode(topics): one vector per label string, in order
Encode(topics) == [j \in 1..Len(topics) |-> encoder[topics[j]]]

\* np.argmax over one row (1-based): the scan replaces the running maximum
\* by every element that is not <= it, and stops at the first NaN
RECURSIVE ArgMaxScan(_, _, _)
ArgMaxScan(sim, i, best) ==
    IF i > Len(sim) \/ IsNaN(sim[best]) THEN best
    ELSE IF ~ScoreLE(sim[i], sim[best]) THEN ArgMaxScan(sim, i + 1, i)
    ELSE ArgMaxScan(sim, i + 1, best)

\* an argmax that keeps the last of equal maxima (>= in place of >)
RECURSIVE ArgMaxLastScan(_, _, _)
ArgMaxLastScan(sim, i, best) ==
    IF i > Len(sim) \/ IsNaN(sim[best]) THEN best
    ELSE IF IsNaN(sim[i]) \/ ScoreLE(sim[best], sim[i]) THEN ArgMaxLastScan(sim, i + 1, i)
    ELSE ArgMaxLastScan(sim, i + 1, best)

ArgMaxLast(sim) == ArgMaxLastScan(sim, 2, 1)

ArgMax(sim) == ArgMaxScan(sim, 2, 1)

\* similarities = np.dot(embeddings_norm, topic_label_embeddings_norm.T)
Similarities(E, T) ==
    [i \in 1..Len(E) |->
        [j \in 1..Len(T) |-> NormDot(Normalize(E[i]), Normalize(T[j]))]]

Raised(exc, n) ==
    [outcome |-> exc, labels |-> <<>>, subs |-> <<>>, confidences |-> <<>>,
     encodes |-> n]

\* assign_predefined_labels that validates the topics after encoding them
AssignPredefinedLabelsLateCheck(E, topics) ==
    IF topics = <<>> THEN Raised("ValueError", 1)
    ELSE LET similarities == Similarities(E, Encode(topics))
             idx == [i \in 1..Len(E) |-> ArgMax(similarities[i])]
         IN  [outcome |-> "ok",
              labels |-> [i \in 1..Len(E) |-> topics[idx[i]]],
              subs |-> <<>>,
              confidences |-> [i \in 1..Len(E) |-> similarities[i][idx[i]]],
              encodes |-> 1]

\* assign_predefined_labels that takes every document's argmax from row 0
AssignPredefinedLabelsFirstRow(E, topics) ==
    IF topics = <<>> THEN Raised("ValueError", 0)
    ELSE LET similarities == Similarities(E, Encode(topics))
             idx == [i \in 1..Len(E) |-> ArgMax(similarities[1])]
         IN  [outcome |-> "ok",
              labels |-> [i \in 1..Len(E) |-> topics[idx[i]]],
              subs |-> <<>>,
              confidences |-> [i \in 1..Len(E) |-> similarities[1][idx[i]]],
              encodes |-> 1]

\* assign_predefined_labels(embeddings, topics)
AssignPredefinedLabels(E, topics) ==
    IF topics = <<>> THEN Raised("ValueError", 0)
    ELSE LET similarities == Similarities(E, Encode(topics))
             idx == [i \in 1..Len(E) |-> ArgMax(similarities[i])]
         IN  [outcome |-> "ok",
              labels |-> [i \in 1..Len(E) |-> topics[idx[i]]],
              subs |-> <<>>,
              confidences |-> [i \in 1..Len(E) |-> similarities[i][idx[i]]],
              encodes |-> 1]

-----------------------------------------------------------------------------
(* The hierarchical assigner: TopicModeler.assign_labels *)

\* a lookup of the subcategories under the first main topic, whatever the label
SubTopicListFirstKey(main_label) ==
    IF tree.keys # <<>> THEN tree.subs[tree.keys[1]] ELSE <<>>

\* self.sub_topics.get(main_label, [])
SubTopicList(main_label) ==
    IF main_label \in DOMAIN tree.subs THEN tree.subs[main_label] ELSE <<>>

\* one pass of the subcategory loop, for the document at idx
SubAssign(e, main_label) ==
    LET sub_topic_list == SubTopicList(main_label)
    IN  IF sub_topic_list = <<>>
        THEN [label |-> NoSub, confidence |-> Zero, encodes |-> 0]
        ELSE LET similarity ==
                     [j \in 1..Len(sub_topic_list) |->
                         NormDot(Normalize(Encode(sub_topic_list)[j]), Normalize(e))]
                 sub_idx == ArgMax(similarity)
             IN  [label |-> sub_topic_list[sub_idx],
                  confidence |-> similarity[sub_idx],
                  encodes |-> 1]

RECURSIVE SumUpTo(_, _)
SumUpTo(f, n) == IF n = 0 THEN 0 ELSE f[n] + SumUpTo(f, n - 1)

\* assign_labels that returns sub_confidences in place of main_confidences
AssignLabelsSubConfidence(E) ==
    LET main == AssignPredefinedLabels(E, tree.keys)
    IN  IF main.outcome # "ok" THEN main
        ELSE LET sub == [i \in 1..Len(E) |-> SubAssign(E[i], main.labels[i])]
                 n == [i \in 1..Len(E) |-> sub[i].encodes]
             IN  [outcome |-> "ok",
                  labels |-> main.labels,
                  subs |-> [i \in 1..Len(E) |-> sub[i].label],
                  confidences |-> [i \in 1..Len(E) |-> sub[i].confidence],
                  encodes |-> main.encodes + SumUpTo(n, Len(E))]

\* assign_labels(embeddings)
AssignLabels(E) ==
    LET main == AssignPredefinedLabels(E, tree.keys)
    IN  IF main.outcome # "ok" THEN main
        ELSE LET sub == [i \in 1..Len(E) |-> SubAssign(E[i], main.labels[i])]
                 n == [i \in 1..Len(E) |-> sub[i].encodes]
             IN  [outcome |-> "ok",
                  labels |-> main.labels,
                  subs |-> [i \in 1..Len(E) |-> sub[i].label],
                  confidences |-> main.confidences,
                  encodes |-> main.encodes + SumUpTo(n, Len(E))]

-----------------------------------------------------------------------------
(* The keyword extractor: TopicModeler.extract_keywords *)

\* a keyphrase is a sequence of one or more words (n-grams)
Phrases == {<<"a">>, <<"b">>, <<"a", "b">>}

PhraseSeqs == UNION {[1..n -> Phrases] : n \in 0..MaxTopN}

\* kw_model.extract_keywords on one chunk: it raises, or it returns phrases
ChunkOutcomes ==
    {[raised |-> TRUE, keywords |-> <<>>]}
        \cup {[raised |-> FALSE, keywords |-> ks] : ks \in PhraseSeqs}

\* the loop over the chunks: all_keywords is extended chunk by chunk, and the
\* loop is left at the first chunk on which the capability raises
RECURSIVE KeywordLoop(_, _, _)
KeywordLoop(outs, c, acc) ==
    IF c > Len(outs) THEN [raised |-> FALSE, all_keywords |-> acc]
    ELSE IF outs[c].raised THEN [raised |-> TRUE, all_keywords |-> acc]
    ELSE KeywordLoop(outs, c + 1, acc \o outs[c].keywords)

\* list(dict.fromkeys(xs)): the keys in insertion order, a repeated key kept once
RECURSIVE DictFromKeys(_)
DictFromKeys(xs) ==
    IF xs = <<>> THEN <<>>
    ELSE LET front == DictFromKeys(SubSeq(xs, 1, Len(xs) - 1))
             last == xs[Len(xs)]
         IN  IF last \in Range(front) THEN front ELSE Append(front, last)

\* extract_keywords that lets the capability's exception out
ExtractKeywordsRaise(outs) ==
    LET loop == KeywordLoop(outs, 1, <<>>)
    IN  IF loop.raised
        THEN [outcome |-> "raise", keywords |-> <<>>,
              all_keywords |-> loop.all_keywords]
        ELSE [outcome |-> "ok", keywords |-> DictFromKeys(loop.all_keywords),
              all_keywords |-> loop.all_keywords]

\* extract_keywords(doc), given what the capability does on the chunks of doc
ExtractKeywords(outs) ==
    LET loop == KeywordLoop(outs, 1, <<>>)
    IN  IF loop.raised
        THEN [outcome |-> "ok", keywords |-> <<>>,
              all_keywords |-> loop.all_keywords]
        ELSE [outcome |-> "ok", keywords |-> DictFromKeys(loop.all_keywords),
              all_keywords |-> loop.all_keywords]

\* the capability's behaviour on a text of n chunks
CapabilityRuns(n) == [1..n -> ChunkOutcomes]

-----------------------------------------------------------------------------
(* The batch driver: main.process_documents *)

\* ' '.join(keywords): the words of the phrases, in order
RECURSIVE JoinWords(_)
JoinWords(kws) ==
    IF kws = <<>> THEN <<>> ELSE kws[1] \o JoinWords(Tail(kws))

RECURSIVE Count(_, _)
Count(ws, w) ==
    IF ws = <<>> THEN 0
    ELSE (IF ws[1] = w THEN 1 ELSE 0) + Count(Tail(ws), w)

\* embedding_model.encode on a keyword string: a deterministic capability that
\* embeds a text by its word counts (the empty text has the zero embedding)
TextEncode(ws) == <<Count(ws, "a"), Count(ws, "b")>>

\* what one extract_keywords call can give on a non-blank text, with whether
\* the capability raised during it
KeywordCalls ==
    {[outcome |-> ExtractKeywords(outs).outcome,
      keywords |-> ExtractKeywords(outs).keywords,
      raised |-> KeywordLoop(outs, 1, <<>>).raised] :
        outs \in UNION {CapabilityRuns(n) : n \in 1..MaxChunks}}

\* documents_to_insert, built from the zip over file names, labels and documents
DocumentsToInsert ==
    [i \in 1..Len(documents) |->
        [file_name |-> documents[i].file_name,
         topic |-> assigned.labels[i],
         sub_topic |-> IF assigned.subs[i] = NoSub THEN "" ELSE assigned.subs[i]]]

\* client.upsert of one point per document, with id = idx (from 0)
Upsert(coll, docs) ==
    [id \in DOMAIN coll \cup {i - 1 : i \in 1..Len(docs)} |->
        IF id + 1 \in 1..Len(docs) THEN docs[id + 1] ELSE coll[id]]

\* the destination folder of a document: main topic, then sub topic if any
DestFolder(doc) ==
    IF doc.sub_topic # "" THEN <<doc.topic, doc.sub_topic>> ELSE <<doc.topic>>

-----------------------------------------------------------------------------
(* Strings of the unsupervised path *)

\* A string is the sequence of its symbols: the separators "_" and " ", and
\* atoms that stand for runs of characters holding neither.

RECURSIVE JoinWith(_, _)
\* sep.join(parts)
JoinWith(sep, parts) ==
    IF parts = <<>> THEN <<>>
    ELSE IF Len(parts) = 1 THEN parts[1]
    ELSE parts[1] \o <<sep>> \o JoinWith(sep, Tail(parts))

RECURSIVE SplitFrom(_, _, _, _)
\* the fields of s from position i on, cur being the field read so far
SplitFrom(s, sep, i, cur) ==
    IF i > Len(s) THEN <<cur>>
    ELSE IF s[i] = sep THEN <<cur>> \o SplitFrom(s, sep, i + 1, <<>>)
    ELSE SplitFrom(s, sep, i + 1, Append(cur, s[i]))

\* s.split(sep)
Split(s, sep) == SplitFrom(s, sep, 1, <<>>)

\* xs[lo:hi] of Python, for 0 <= lo <= hi
Slice(xs, lo, hi) ==
    SubSeq(xs, lo + 1, IF hi < Len(xs) THEN hi ELSE Len(xs))

RECURSIVE Strip(_)
\* s.strip()
Strip(s) ==
    IF s = <<>> THEN s
    ELSE IF Head(s) = " " THEN Strip(Tail(s))
    ELSE IF s[Len(s)] = " " THEN Strip(SubSeq(s, 1, Len(s) - 1))
    ELSE s

\* str(topic)
Str(topic) == <<ToString(topic)>>

\* f"<Topic> {topic_id}", the generated name of a cluster
GeneratedName(topic_id) == <<"Topic", " ">> \o Str(topic_id)

\* the label of the sentinel cluster in Categorizer ("out of category")
OutOfCategory == <<"out", " ", "of", " ", "category">>

\* the name of an unnamed cluster in AutoTopicModeler
NoTopic == <<"No", " ", "Topic">>

\* the sentinel cluster id: no cluster assigned
Sentinel == 0 - 1

-----------------------------------------------------------------------------
(* The clustering capability (BERTopic) and the zero-shot classifier *)

ProbSteps == 2      \* probabilities are the multiples k / ProbSteps of 1 / ProbSteps
TopWords == 10      \* the [:10] of the topic words in assign_automatic_labels

DocCounts == {0, 1, 2}      \* sizes of the document lists of the unsupervised path
TopicCounts == {1, 2}       \* numbers of clusters the capability finds
Picks == {0, 1, 2}          \* what the classifier ranks first (0: it returns no label)

\* a blank document, and one with text between blanks
DocTexts == {<<" ">>, <<" ", "net">>}
DocumentLists == UNION {[1..n -> DocTexts] : n \in DocCounts}

ClusterIds == Sentinel..1

\* topic_keywords: the keyword tokens of each cluster, most significant
\* first; cluster 1 has more than ten tokens, among them an n-gram (a token
\* holding a blank) and a token holding an underscore
Vocabulary ==
    [id \in ClusterIds |->
        CASE id = Sentinel -> << <<"the">>, <<"and">>, <<"of">> >>
          [] id = 0 -> << <<"net">>, <<"key">>, <<"fire">> >>
          [] OTHER -> << <<"data", " ", "loss">>, <<"e", "_", "mail">>,
                         <<"k3">>, <<"k4">>, <<"k5">>, <<"k6">>, <<"k7">>,
                         <<"k8">>, <<"k9">>, <<"k10">>, <<"k11">> >>]

\* one row of the probability matrix: one probability per cluster 0..K-1
ProbRows(K) ==
    {r \in [1..K -> 0..ProbSteps] : SumUpTo(r, K) <= ProbSteps}

\* what a fitted capability reports for a list of n documents; topics[i] and
\* probabilities[i] are what it reports for the document at position i
FitRaises ==
    [raised |-> TRUE, ntopics |-> 0, topics |-> <<>>, probabilities |-> <<>>,
     vocab |-> Vocabulary]

Fits(n) ==
    {FitRaises} \cup
    UNION {[raised : {FALSE}, ntopics : {K},
            topics : [1..n -> Sentinel..(K - 1)],
            probabilities : [1..n -> ProbRows(K)],
            vocab : {Vocabulary}] : K \in TopicCounts}

\* the cluster ids of topic_info (get_topic_info): the sentinel row is there
\* when some document is unassigned, then one row per cluster
TopicInfoIds(f) ==
    (IF \E i \in DOMAIN f.topics : f.topics[i] = Sentinel
     THEN <<Sentinel>> ELSE <<>>) \o [k \in 1..f.ntopics |-> k - 1]

\* the Name column of topic_info: the id and the first four tokens of the
\* cluster, joined by underscores
TopicInfoName(f, id) ==
    JoinWith("_", <<Str(id)>> \o Slice(f.vocab[id], 0, 4))

\* the zero-shot classifier: the labels of its answer, best first.  Its
\* answer depends on the call: with n candidates it ranks the candidate at
\* position (c.pick + n) % 3 first, and returns no label when that is 0
Classify(c, sequences, candidate_labels) ==
    LET n == Len(candidate_labels)
        top == (c.pick + n) % 3
    IN  IF top = 0 \/ n = 0 THEN <<>>
        ELSE [k \in 1..n |-> candidate_labels[((top + k - 2) % n) + 1]]

Classifiers == {[raised |-> TRUE, pick |-> 0]} \cup [raised : {FALSE}, pick : Picks]

-----------------------------------------------------------------------------
(* The unsupervised path: models.TopicModeler.fit_transform,               *)
(* Categorizer.assign_automatic_labels and IntegratedProcessor.run         *)

\* dict.get(k, default) and d[k] = v on a dict kept as a function
Lookup(d, k, default) == IF k \in DOMAIN d THEN d[k] ELSE default
Put(d, k, v) == [x \in DOMAIN d \cup {k} |-> IF x = k THEN v ELSE d[x]]

RECURSIVE ValidIndices(_, _)
\* the positions from i on of the documents that are not blank
ValidIndices(docs, i) ==
    IF i > Len(docs) THEN <<>>
    ELSE (IF Strip(docs[i]) # <<>> THEN <<i>> ELSE <<>>)
            \o ValidIndices(docs, i + 1)

\* embedding_model.encode on a document
DocEncode(d) == <<Count(d, "net"), Count(d, "flu")>>

FitFailed(exc) ==
    [outcome |-> exc, topics |-> <<>>, probabilities |-> <<>>, embeddings |-> <<>>]

\* fit_transform whose except branch logs the error and returns nothing
FitTransformSwallow(docs, f) ==
    LET valid == ValidIndices(docs, 1)
    IN  IF valid = <<>> THEN FitFailed("ValueError")
        ELSE IF f.raised THEN FitFailed("ok")
        ELSE [outcome |-> "ok",
              topics |-> [k \in 1..Len(valid) |-> f.topics[valid[k]]],
              probabilities |-> [k \in 1..Len(valid) |-> f.probabilities[valid[k]]],
              embeddings |-> [k \in 1..Len(valid) |-> DocEncode(Strip(docs[valid[k]]))]]

\* TopicModeler.fit_transform(documents), the capability behaving as f
FitTransform(docs, f) ==
    LET valid == ValidIndices(docs, 1)
    IN  IF valid = <<>> THEN FitFailed("ValueError")
        ELSE IF f.raised THEN FitFailed("ClusteringError")
        ELSE [outcome |-> "ok",
              topics |-> [k \in 1..Len(valid) |-> f.topics[valid[k]]],
              probabilities |-> [k \in 1..Len(valid) |-> f.probabilities[valid[k]]],
              embeddings |-> [k \in 1..Len(valid) |-> DocEncode(Strip(docs[valid[k]]))]]

\* the last label of the classification in place of the first
BestLabelLast(classification, topic_id) ==
    IF classification # <<>> THEN classification[Len(classification)]
    ELSE GeneratedName(topic_id)

\* classification['labels'][0], or the generated name
BestLabel(classification, topic_id) ==
    IF classification # <<>> THEN classification[1]
    ELSE GeneratedName(topic_id)

RECURSIVE LabelLoop(_, _, _, _, _)
\* the loop over the rows of topic_info; ids are the cluster ids of the rows
\* left, labels is self.topic_labels and calls the classifier calls so far
LabelLoop(f, c, ids, labels, calls) ==
    IF ids = <<>>
    THEN [outcome |-> "ok", topic_labels |-> labels, calls |-> calls]
    ELSE LET topic_id == Head(ids)
         IN  IF topic_id = Sentinel
             THEN LabelLoop(f, c, Tail(ids),
                            Put(labels, topic_id, OutOfCategory), calls)
             ELSE LET topic_words == Slice(f.vocab[topic_id], 0, TopWords)
                      topic_desc == JoinWith(" ", topic_words)
                      classification ==
                          IF c.raised THEN <<>>
                          ELSE Classify(c, topic_desc, topic_words)
                      made == Append(calls,
                                     [topic_id |-> topic_id,
                                      sequences |-> topic_desc,
                                      candidate_labels |-> topic_words,
                                      labels |-> classification,
                                      raised |-> c.raised])
                  IN  IF c.raised
                      THEN [outcome |-> "ClassifierError",
                            topic_labels |-> labels, calls |-> made]
                      ELSE LabelLoop(f, c, Tail(ids),
                                     Put(labels, topic_id,
                                         BestLabel(classification, topic_id)),
                                     made)

\* Categorizer.assign_automatic_labels(); info_ok: get_topic_info gave a table
AssignAutomaticLabels(f, info_ok, c, labels) ==
    IF ~info_ok
    THEN [outcome |-> "ValueError", topic_labels |-> labels, calls |-> <<>>]
    ELSE LabelLoop(f, c, TopicInfoIds(f), labels, <<>>)

\* Categorizer.assign_predefined_labels(embeddings, predefined_topics)
CategorizerAssignPredefinedLabels(E, labels) ==
    IF labels = <<>> THEN Raised("ValueError", 0)
    ELSE LET similarities == Similarities(E, Encode(labels))
             idx == [i \in 1..Len(E) |-> ArgMax(similarities[i])]
         IN  [outcome |-> "ok",
              labels |-> [i \in 1..Len(E) |-> labels[idx[i]]],
              subs |-> <<>>,
              confidences |-> [i \in 1..Len(E) |-> similarities[i][idx[i]]],
              encodes |-> 1]

\* topic in probabilities[i]: some element of the row equals the number topic
InRow(topic, row) ==
    \E j \in 1..Len(row) : row[j] = topic * ProbSteps

\* row[topic] of Python: from the end when topic is negative
PyIndex(row, topic) ==
    IF topic >= 0 THEN row[topic + 1] ELSE row[Len(row) + topic + 1]

\* probabilities[i][topic] if topic in probabilities[i] else 0
AssignedTopicProb(row, topic) ==
    IF InRow(topic, row) THEN PyIndex(row, topic) ELSE 0

\* what run gives: the table it returns (its rows in order), whether the
\* table was written to a file, and the state it leaves in the categorizer
RunResult(outcome, df, label_column, csv, labels, calls) ==
    [outcome |-> outcome, df |-> df, label_column |-> label_column,
     csv |-> csv, topic_labels |-> labels, calls |-> calls]

\* the orders sort_values can give n rows
Perms(n) == {p \in [1..n -> 1..n] : \A i, j \in 1..n : i # j => p[i] # p[j]}

\* a before b is an order sort_values('Confidence', ascending=False) can
\* give: NaN goes last
Descending(a, b, scores) ==
    IF scores THEN IsNaN(b) \/ ScoreLE(b, a) ELSE b <= a

IsSorted(df, scores) ==
    \A k, l \in 1..Len(df) :
        k < l => Descending(df[k].Confidence, df[l].Confidence, scores)

\* IntegratedProcessor.run(use_zero_shot); order is the order in which
\* sort_values puts the rows
Run(docs, f, predefined, use_zero_shot, info_ok, c, labels, order) ==
    IF docs = <<>>
    THEN RunResult("ok", <<>>, "none", FALSE, labels, <<>>)
    ELSE
    LET ft == FitTransform(docs, f)
    IN  IF ft.outcome # "ok"
        THEN RunResult(ft.outcome, <<>>, "none", FALSE, labels, <<>>)
        ELSE IF use_zero_shot \/ predefined = <<>>
        THEN LET aal == AssignAutomaticLabels(f, info_ok, c, labels)
                 rows == [i \in 1..Len(docs) |->
                            [Document |-> i,
                             Topic |-> ft.topics[i],
                             Label |-> Lookup(aal.topic_labels, ft.topics[i],
                                              GeneratedName(ft.topics[i])),
                             Confidence |-> AssignedTopicProb(ft.probabilities[i],
                                                              ft.topics[i])]]
             IN  IF aal.outcome # "ok"
                 THEN RunResult(aal.outcome, <<>>, "none", FALSE,
                                aal.topic_labels, aal.calls)
                 ELSE IF Len(ft.topics) # Len(docs)
                 THEN RunResult("ValueError", <<>>, "none", FALSE,
                                aal.topic_labels, aal.calls)
                 ELSE RunResult("ok", [k \in 1..Len(docs) |-> rows[order[k]]],
                                IF use_zero_shot THEN "Assigned Label"
                                ELSE "Topic Label",
                                TRUE, aal.topic_labels, aal.calls)
        ELSE LET apl == CategorizerAssignPredefinedLabels(ft.embeddings, predefined)
                 rows == [i \in 1..Len(docs) |->
                            [Document |-> i,
                             Label |-> apl.labels[i],
                             Confidence |-> apl.confidences[i]]]
             IN  IF Len(apl.labels) # Len(docs)
                 THEN RunResult("ValueError", <<>>, "none", FALSE, labels, <<>>)
                 ELSE RunResult("ok", [k \in 1..Len(docs) |-> rows[order[k]]],
                                "Assigned Label", TRUE, labels, <<>>)

-----------------------------------------------------------------------------
(* AutoTopicModeler.assign_topic_names *)

\* the name built from the 3rd and 4th fields of the Name
DisplayNameShifted(name) ==
    IF name # NoTopic THEN JoinWith(" ", Slice(Split(name, "_"), 2, 4))
    ELSE NoTopic

\* " ".join(row["Name"].split("_")[1:3]) if row["Name"] != "No Topic" else "No Topic"
DisplayName(name) ==
    IF name # NoTopic THEN JoinWith(" ", Slice(Split(name, "_"), 1, 3))
    ELSE NoTopic

\* topic_name_mapping, from the rows of topic_info
TopicNameMapping(f) ==
    [id \in Range(TopicInfoIds(f)) |-> DisplayName(TopicInfoName(f, id))]

\* topic_names, from the topics of the documents
TopicNames(mapping, topics) ==
    [i \in 1..Len(topics) |-> Lookup(mapping, topics[i], NoTopic)]

-----------------------------------------------------------------------------
(* Utils.chunk_document: textwrap.wrap(doc, chunk_size) *)

\* A text is the sequence of its characters: the letters "a" and "b", the
\* blank and the hyphen.  textwrap.wrap is taken with its defaults
\* (replace_whitespace, drop_whitespace, break_long_words, break_on_hyphens).

Letters == {"a", "b"}
Characters == Letters \cup {" ", "-"}

\* the character at position i, "" outside the text
CharAt(s, i) == IF i \in 1..Len(s) THEN s[i] ELSE ""

\* the end of the longest run of characters of cs that starts at i
\* (i - 1 when s[i] is not in cs)
RunEnd(s, i, cs) ==
    CHOOSE j \in (i - 1)..Len(s) :
        /\ \A k \in i..j : s[k] \in cs
        /\ j = Len(s) \/ s[j + 1] \notin cs

\* -{2,}(?=\w) matches at i: two hyphens or more, then a letter
EmDashAt(s, i) ==
    LET e == RunEnd(s, i, {"-"})
    IN  e >= i + 1 /\ CharAt(s, e + 1) \in Letters

\* the hyphen at j ends a part of a hyphenated word: two letters, or letter
\* hyphen letter, before it, and letter, optional hyphen, letter after it
HyphenBreakAt(s, j) ==
    /\ CharAt(s, j) = "-"
    /\ \/ CharAt(s, j - 1) \in Letters /\ CharAt(s, j - 2) \in Letters
       \/ /\ CharAt(s, j - 1) \in Letters /\ CharAt(s, j - 2) = "-"
          /\ CharAt(s, j - 3) \in Letters
    /\ CharAt(s, j + 1) \in Letters
    /\ \/ CharAt(s, j + 2) \in Letters
       \/ CharAt(s, j + 2) = "-" /\ CharAt(s, j + 3) \in Letters

\* a chunk of wordsep_re that starts at i can end at j
ChunkEndsAt(s, i, j) ==
    \/ j >= i + 1 /\ HyphenBreakAt(s, j)
    \/ j = Len(s) \/ CharAt(s, j + 1) = " "
    \/ CharAt(s, j) \in Letters /\ EmDashAt(s, j + 1)

\* the end of the chunk of wordsep_re that starts at i
ChunkEnd(s, i) ==
    IF s[i] = " " THEN RunEnd(s, i, {" "})
    ELSE IF s[i] = "-" /\ CharAt(s, i - 1) \in Letters /\ EmDashAt(s, i)
    THEN RunEnd(s, i, {"-"})
    ELSE CHOOSE j \in i..Len(s) :
            /\ ChunkEndsAt(s, i, j)
            /\ \A k \in i..(j - 1) : ~ChunkEndsAt(s, i, k)

RECURSIVE SplitChunksFrom(_, _)
SplitChunksFrom(s, i) ==
    IF i > Len(s) THEN <<>>
    ELSE <<SubSeq(s, i, ChunkEnd(s, i))>> \o SplitChunksFrom(s, ChunkEnd(s, i) + 1)

\* TextWrapper._split: the indivisible chunks of the text
SplitChunks(s) == SplitChunksFrom(s, 1)

\* c.strip() == ''
IsBlank(c) == \A k \in 1..Len(c) : c[k] = " "

RECURSIVE FittingOverflow(_, _, _)
\* takes one more chunk whenever the line is not yet full
FittingOverflow(cs, cur_len, width) ==
    IF cs = <<>> \/ cur_len >= width THEN 0
    ELSE 1 + FittingOverflow(Tail(cs), cur_len + Len(cs[1]), width)

RECURSIVE Fitting(_, _, _)
\* how many of the next chunks go onto the current line
Fitting(cs, cur_len, width) ==
    IF cs = <<>> \/ cur_len + Len(cs[1]) > width THEN 0
    ELSE 1 + Fitting(Tail(cs), cur_len + Len(cs[1]), width)

\* ''.join(cur_line)
Concat(cs) == JoinWords(cs)

\* TextWrapper._handle_long_word: the part of the chunk that goes onto the
\* current line and the part left: cut after the last hyphen that fits and
\* has a non-hyphen before it, else where the line is full
HandleLongWord(chunk, space_left) ==
    LET hs == {h \in 2..space_left :
                  chunk[h] = "-" /\ \A g \in (h + 1)..space_left : chunk[g] # "-"}
        end == IF \E h \in hs : \E q \in 1..(h - 1) : chunk[q] # "-"
               THEN CHOOSE h \in hs : TRUE
               ELSE space_left
    IN  [head |-> SubSeq(chunk, 1, end),
         tail |-> SubSeq(chunk, end + 1, Len(chunk))]

RECURSIVE WrapChunks(_, _, _)
\* TextWrapper._wrap_chunks: one pass of its loop builds one line
WrapChunks(cs, lines, width) ==
    IF cs = <<>> THEN lines
    ELSE
    LET first == IF IsBlank(cs[1]) /\ lines # <<>> THEN Tail(cs) ELSE cs
        k == Fitting(first, 0, width)
        fitted == SubSeq(first, 1, k)
        left == SubSeq(first, k + 1, Len(first))
        long == left # <<>> /\ Len(left[1]) > width
        cut == HandleLongWord(left[1], width - Len(Concat(fitted)))
        cur_line == IF long THEN Append(fitted, cut.head) ELSE fitted
        rest == IF long THEN <<cut.tail>> \o Tail(left) ELSE left
        kept == IF cur_line # <<>> /\ IsBlank(cur_line[Len(cur_line)])
                THEN SubSeq(cur_line, 1, Len(cur_line) - 1)
                ELSE cur_line
    IN  WrapChunks(rest,
                   IF kept # <<>> THEN Append(lines, Concat(kept)) ELSE lines,
                   width)

\* textwrap.wrap(text, width), for width > 0
Wrap(s, width) == WrapChunks(SplitChunks(s), <<>>, width)

\* chunk_document(doc, chunk_size)
ChunkDocument(d, size) == Wrap(d, size)

-----------------------------------------------------------------------------
(* DocumentLoader: the extension mapping and load_documents *)

MaxFiles == 2           \* a folder lists at most MaxFiles entries
LoaderCallNumbers == {1, 2, 3}      \* the calls made on the loaders, numbered

Instances == {1, 2}     \* the DocumentLoader objects that can be constructed

\* str.lower() on a symbol, and on a string
LowerSymbol(c) ==
    CASE c = "TXT" -> "txt"
      [] c = "DAT" -> "dat"
      [] c = "PDF" -> "pdf"
      [] OTHER -> c
Lower(s) == [i \in DOMAIN s |-> LowerSymbol(s[i])]

RECURSIVE StripDots(_)
\* str.strip('.')
StripDots(s) ==
    IF s = <<>> THEN s
    ELSE IF Head(s) = "." THEN StripDots(Tail(s))
    ELSE IF s[Len(s)] = "." THEN StripDots(SubSeq(s, 1, Len(s) - 1))
    ELSE s

\* os.path.splitext(filename)[1]: from the last dot on, unless that dot has
\* only dots before it
SplitExt(filename) ==
    LET dots == {i \in DOMAIN filename : filename[i] = "."}
        last == CHOOSE i \in dots : \A j \in dots : j <= i
    IN  IF dots = {} THEN <<>>
        ELSE IF \A j \in 1..(last - 1) : filename[j] = "." THEN <<>>
        ELSE SubSeq(filename, last, Len(filename))

\* SUPPORTED_EXTENSIONS as the class body defines it (two of its entries)
ClassExtensions ==
    [e \in {<<".", "txt">>, <<".", "pdf">>} |->
        IF e = <<".", "txt">> THEN "extract_txt" ELSE "extract_pdf"]

\* hasattr(self, method_name): the attributes of a loader, among the names of
\* the model
HasAttr(method_name) ==
    method_name \in {"extract_txt", "extract_pdf", "file_names"}

\* the entries a folder can list: a name, whether it is a regular file, its
\* format and the text that can be read from it
Entries ==
    {[filename |-> <<"a", ".", "txt">>, is_file |-> TRUE, format |-> "text",
      text |-> <<" ", "net">>],
     [filename |-> <<"b", ".", "TXT">>, is_file |-> TRUE, format |-> "text",
      text |-> <<"net">>],
     [filename |-> <<"c", ".", "txt">>, is_file |-> TRUE, format |-> "text",
      text |-> <<" ">>],
     [filename |-> <<"d", ".", "pdf">>, is_file |-> TRUE, format |-> "text",
      text |-> <<"net">>],
     [filename |-> <<"e", ".", "DAT">>, is_file |-> TRUE, format |-> "text",
      text |-> <<"net">>],
     [filename |-> <<"f", ".", "txt">>, is_file |-> FALSE, format |-> "none",
      text |-> <<>>]}

\* a folder path: whether it is a directory, and what os.listdir gives
NoFolder == [isdir |-> FALSE, listing |-> <<>>]
Folders ==
    {NoFolder} \cup
    {[isdir |-> TRUE, listing |-> l] :
        l \in {q \in UNION {[1..n -> Entries] : n \in 0..MaxFiles} :
                  \A i, j \in DOMAIN q : i # j => q[i] # q[j]}}

\* getattr(self, method_name)(file_path): extract_txt reads any file with
\* errors='replace', extract_pdf raises on a file that is no PDF, and an
\* attribute that is no method cannot be called
Extract(method_name, e) ==
    IF method_name = "extract_txt" \/ (method_name = "extract_pdf" /\ e.format = "pdf")
    THEN [raised |-> FALSE, text |-> e.text]
    ELSE [raised |-> TRUE, text |-> <<>>]

RECURSIVE LoadLoopKeepBlank(_, _, _, _, _)
\* a loop that appends the name of a file whose text is blank
LoadLoopKeepBlank(ext_map, listing, i, names, docs) ==
    IF i > Len(listing) THEN [file_names |-> names, documents |-> docs]
    ELSE LET e == listing[i]
             file_ext == Lower(SplitExt(e.filename))
             x == Extract(ext_map[file_ext], e)
         IN  IF e.is_file /\ file_ext \in DOMAIN ext_map /\ ~x.raised
             THEN IF Strip(x.text) # <<>>
                  THEN LoadLoopKeepBlank(ext_map, listing, i + 1,
                            Append(names, e.filename),
                            Append(docs, [file_name |-> e.filename,
                                          file_type |-> StripDots(file_ext),
                                          text |-> x.text]))
                  ELSE LoadLoopKeepBlank(ext_map, listing, i + 1,
                            Append(names, e.filename), docs)
             ELSE LoadLoopKeepBlank(ext_map, listing, i + 1, names, docs)

RECURSIVE LoadLoop(_, _, _, _, _)
\* the loop of load_documents over os.listdir(folder_path), from entry i on
LoadLoop(ext_map, listing, i, names, docs) ==
    IF i > Len(listing) THEN [file_names |-> names, documents |-> docs]
    ELSE LET e == listing[i]
             file_ext == Lower(SplitExt(e.filename))
             x == Extract(ext_map[file_ext], e)
         IN  IF e.is_file /\ file_ext \in DOMAIN ext_map /\ ~x.raised
                /\ Strip(x.text) # <<>>
             THEN LoadLoop(ext_map, listing, i + 1,
                           Append(names, e.filename),
                           Append(docs, [file_name |-> e.filename,
                                         file_type |-> StripDots(file_ext),
                                         text |-> x.text]))
             ELSE LoadLoop(ext_map, listing, i + 1, names, docs)

\* load_documents(folder_path): both lists start empty; the hashes of a
\* document come from functions that return "" when they fail
LoaderLoadDocuments(ext_map, folder_path) ==
    IF ~folder_path.isdir THEN [file_names |-> <<>>, documents |-> <<>>]
    ELSE LoadLoop(ext_map, folder_path.listing, 1, <<>>, <<>>)

\* add_supported_extension(extension, method_name): the mapping it leaves
\* and how it ends (it returns None on both branches)
AddSupportedExtension(ext_map, extension, method_name) ==
    IF HasAttr(method_name)
    THEN [outcome |-> "returned", logged |-> "info",
          ext_map |-> Put(ext_map, Lower(extension), method_name)]
    ELSE [outcome |-> "returned", logged |-> "error", ext_map |-> ext_map]

\* remove_supported_extension(extension)
RemoveSupportedExtension(ext_map, extension) ==
    IF Lower(extension) \in DOMAIN ext_map
    THEN [outcome |-> "returned", logged |-> "info",
          ext_map |-> [k \in DOMAIN ext_map \ {Lower(extension)} |-> ext_map[k]]]
    ELSE [outcome |-> "returned", logged |-> "warning", ext_map |-> ext_map]

\* self.SUPPORTED_EXTENSIONS read on an instance: no instance has an attribute
\* of that name, so the lookup gives the attribute of the class
InstanceExtensions(inst) == SUPPORTED_EXTENSIONS

\* the extensions load_documents of an instance accepts
Accepted(inst) == DOMAIN InstanceExtensions(inst)

-----------------------------------------------------------------------------
(* DatabaseHandler: insert_documents and the pagination of get_statistics *)

limit == 2          \* the page size of the pagination loops (1000 in the source)
MaxInserts == 2     \* insert_documents calls in one behaviour

InsertSizes == {1, 3}       \* sizes of the batches handed to insert_documents

\* the topic and sub topic of a payload
PayloadKinds ==
    {[topic |-> "T1", sub_topic |-> "S1"],
     [topic |-> "T2", sub_topic |-> ""]}

\* the batch of the b-th call: its documents carry the file names <<b, i>>
InsertBatch(b, kinds) ==
    [i \in DOMAIN kinds |->
        [file_name |-> <<b, i>>, topic |-> kinds[i].topic,
         sub_topic |-> kinds[i].sub_topic]]

\* the orders in which client.search can rank the points of a collection for
\* the dummy query vector: all the points score alike, so the order is the
\* engine's, the same for every page while the collection is not written
Rankings(coll) ==
    LET n == Cardinality(DOMAIN coll)
    IN  {[k \in 1..n |-> p[k] - 1] : p \in Perms(n)}

\* client.search(limit=limit, offset=offset): the ids of one page
Search(rank, lim, off) == Slice(rank, off, off + lim)

\* offset += limit, skipping one more point
NextOffsetSkip(off) == off + limit + 1

\* offset += limit
NextOffset(off) == off + limit

RECURSIVE CountPage(_, _, _, _)
\* the counting of one page into the dict d, by the payload field
CountPage(d, coll, page, field) ==
    IF page = <<>> THEN d
    ELSE LET key == coll[Head(page)][field]
         IN  CountPage(Put(d, key, Lookup(d, key, 0) + 1), coll, Tail(page), field)

-----------------------------------------------------------------------------
(* TransformersSummarizer.summarize *)

MaxTexts == 2       \* summarize is handed at most MaxTexts texts

SummaryInputs == {<<>>, <<"net">>, <<"net", " ", "key">>}

\* what the summarization pipeline can do on one text: raise, or return a
\* summary_text
Generations ==
    {[raised |-> TRUE, summary_text |-> <<>>]} \cup
    [raised : {FALSE}, summary_text : {<<>>, <<"net">>}]

RECURSIVE SummarizeLoop(_, _, _)
\* the loop of summarize from text i on, gen[i] being what the pipeline does
\* on text i; the except branch re-raises
SummarizeLoop(gen, i, acc) ==
    IF i > Len(gen) THEN [outcome |-> "ok", summaries |-> acc]
    ELSE IF gen[i].raised THEN [outcome |-> "raised", summaries |-> <<>>]
    ELSE SummarizeLoop(gen, i + 1, Append(acc, gen[i].summary_text))

\* summarize(texts)
Summarize(gen) == SummarizeLoop(gen, 1, <<>>)

-----------------------------------------------------------------------------
(* api: POST /process/predefined *)

\* no answer was given
NoResponse == [status |-> 0, detail |-> "none"]

\* the answer to a request whose input folder is no directory or whose
\* output folder is empty
BadRequest == [status |-> 400, detail |-> "invalid folder"]

\* the try/except around process_documents: the success message when the
\* call returns, HTTP 500 when it raises
ProcessPredefinedDocuments(raised) ==
    IF raised THEN [status |-> 500, detail |-> "error"]
    ELSE [status |-> 200, detail |-> "completed successfully"]

-----------------------------------------------------------------------------
(* Calls of the assigner on inputs drawn from the bounded sets *)

NoCall == [op |-> "none", topics |-> <<>>]
NoResult == [outcome |-> "none", labels |-> <<>>, subs |-> <<>>, confidences |-> <<>>]

\* extract_keywords has not been called
KwIdle ==
    /\ kpc = "idle"
    /\ chunkOutcomes = <<>>
    /\ all_keywords = <<>>
    /\ kwResult = [outcome |-> "none", keywords |-> <<>>]

\* process_documents has not been called
ProcIdle ==
    /\ ppc = "idle"
    /\ documents = <<>>
    /\ extracted_keywords_list = <<>>
    /\ kwFailed = {}
    /\ keyword_embeddings = <<>>
    /\ assigned = NoResult
    /\ collection = <<>>
    /\ organized = {}
    /\ exit = "none"



\* no call of the unsupervised path was made
NoRun == RunResult("none", <<>>, "none", FALSE, <<>>, <<>>)

TopicsIdle ==
    /\ tpc = "idle"
    /\ self_documents = <<>>
    /\ fit = FitRaises
    /\ tcall = [op |-> "none", use_zero_shot |-> FALSE]
    /\ topic_labels = <<>>
    /\ classifier_calls = <<>>
    /\ tresult = NoRun
    /\ csv_files = 0
    /\ topic_name_mapping = <<>>
    /\ topic_names = <<>>

\* chunk_document has not been called
ChunkIdle ==
    /\ cpc = "idle"
    /\ text = <<>>
    /\ chunk_size = 1
    /\ chunks = <<>>

\* no call was made on a DocumentLoader: one instance exists
NoLoaderCall ==
    [op |-> "none", inst |-> 1, extension |-> <<>>, method_name |-> "none",
     folder_path |-> NoFolder, outcome |-> "none", logged |-> "none",
     previous |-> <<>>]

LoaderIdle ==
    /\ SUPPORTED_EXTENSIONS = ClassExtensions
    /\ loaders = {1}
    /\ file_names = [j \in Instances |-> <<>>]
    /\ loader_documents = [j \in Instances |-> <<>>]
    /\ lcall = NoLoaderCall
    /\ lcalls = 0

\* no call was made on the DatabaseHandler: its collection is empty
DbIdle ==
    /\ points = <<>>
    /\ batches = <<>>
    /\ spc = "idle"
    /\ ranking = <<>>
    /\ total = 0
    /\ offset = 0
    /\ stat_topics = <<>>
    /\ stat_subtopics = <<>>
    /\ visited = <<>>

\* summarize has not been called
SumIdle ==
    /\ sumpc = "idle"
    /\ texts = <<>>
    /\ generated = <<>>
    /\ summaries = <<>>

\* no call was made on the loader, the database handler or the summarizer
IoIdle == LoaderIdle /\ DbIdle /\ SumIdle

\* the label lists a caller can pass: the main topics or one subcategory list
TopicLists == {tree.keys} \cup {tree.subs[k] : k \in DOMAIN tree.subs}

InitAssign ==
    /\ embeddings \in Batches
    /\ tree \in LabelTrees
    /\ encoder \in Encoders
    /\ apc = "idle"
    /\ call = NoCall
    /\ result = NoResult
    /\ encodeCalls = 0
    /\ KwIdle
    /\ ProcIdle
    /\ TopicsIdle
    /\ ChunkIdle
    /\ IoIdle
    /\ response = NoResponse
    /\ runs = 0

CallAssignPredefinedLabels ==
    /\ apc = "idle"
    /\ \E topics \in TopicLists :
          LET r == AssignPredefinedLabels(embeddings, topics)
          IN  /\ call' = [op |-> "assign_predefined_labels", topics |-> topics]
              /\ result' = [outcome |-> r.outcome, labels |-> r.labels,
                            subs |-> r.subs, confidences |-> r.confidences]
              /\ encodeCalls' = r.encodes
    /\ apc' = "done"
    /\ UNCHANGED <<embeddings, modelVars, kwVars, procVars, topicVars, chunkVars, ioVars, response, runs>>

CallAssignLabels ==
    /\ apc = "idle"
    /\ LET r == AssignLabels(embeddings)
       IN  /\ call' = [op |-> "assign_labels", topics |-> tree.keys]
           /\ result' = [outcome |-> r.outcome, labels |-> r.labels,
                         subs |-> r.subs, confidences |-> r.confidences]
           /\ encodeCalls' = r.encodes
    /\ apc' = "done"
    /\ UNCHANGED <<embeddings, modelVars, kwVars, procVars, topicVars, chunkVars, ioVars, response, runs>>

NextAssign == CallAssignPredefinedLabels \/ CallAssignLabels

SpecAssign == InitAssign /\ [][NextAssign]_vars

-----------------------------------------------------------------------------
(* Calls of extract_keywords *)

InitKw ==
    /\ KwIdle
    /\ embeddings = <<>> /\ apc = "idle" /\ call = NoCall
    /\ result = NoResult /\ encodeCalls = 0
    /\ tree = MixedTree /\ encoder = EncGeneral
    /\ ProcIdle
    /\ TopicsIdle
    /\ ChunkIdle
    /\ IoIdle
    /\ response = NoResponse
    /\ runs = 0

CallExtractKeywords ==
    /\ kpc = "idle"
    /\ \E n \in 0..MaxChunks : \E outs \in CapabilityRuns(n) :
          LET r == ExtractKeywords(outs)
          IN  /\ chunkOutcomes' = outs
              /\ all_keywords' = r.all_keywords
              /\ kwResult' = [outcome |-> r.outcome, keywords |-> r.keywords]
    /\ kpc' = "done"
    /\ UNCHANGED <<assignVars, modelVars, procVars, topicVars, chunkVars, ioVars, response, runs>>

NextKw == CallExtractKeywords

SpecKw == InitKw /\ [][NextKw]_vars

-----------------------------------------------------------------------------
(* One run of process_documents *)

Init ==
    /\ ProcIdle
    /\ TopicsIdle
    /\ ChunkIdle
    /\ KwIdle
    /\ embeddings = <<>> /\ apc = "idle" /\ call = NoCall
    /\ result = NoResult /\ encodeCalls = 0
    /\ tree \in LabelTrees
    /\ encoder \in Encoders
    /\ IoIdle
    /\ response = NoResponse
    /\ runs = 0

Return(where) ==
    /\ ppc' = "returned"
    /\ exit' = where

\* document_loader.load_documents, and the return when nothing was loaded
LoadDocuments ==
    /\ ppc = "idle"
    /\ \E n \in 0..MaxDocs :
          /\ documents' = [i \in 1..n |-> [file_name |-> i]]
          /\ IF n = 0 THEN Return("no_documents")
             ELSE ppc' = "keywords" /\ exit' = exit
    /\ UNCHANGED <<extracted_keywords_list, kwFailed, keyword_embeddings,
                   assigned, collection, organized>>
    /\ UNCHANGED <<assignVars, modelVars, kwVars, topicVars, chunkVars, ioVars, response, runs>>

\* one pass of the keyword loop, inside its try
ExtractKeywordsStep ==
    /\ ppc = "keywords"
    /\ \E kc \in KeywordCalls :
          LET idx == Len(extracted_keywords_list) + 1
          IN  /\ kwFailed' = IF kc.raised THEN kwFailed \cup {idx} ELSE kwFailed
              /\ IF kc.outcome # "ok"
                 THEN /\ Return("keywords")
                      /\ UNCHANGED extracted_keywords_list
                 ELSE /\ extracted_keywords_list' =
                             Append(extracted_keywords_list, JoinWords(kc.keywords))
                      /\ ppc' = IF idx = Len(documents) THEN "encode" ELSE "keywords"
                      /\ exit' = exit
    /\ UNCHANGED <<documents, keyword_embeddings, assigned, collection, organized>>
    /\ UNCHANGED <<assignVars, modelVars, kwVars, topicVars, chunkVars, ioVars, response, runs>>

\* embedding_model.encode(extracted_keywords_list), inside its try
EncodeStep ==
    /\ ppc = "encode"
    /\ \E ok \in BOOLEAN :
          IF ok
          THEN /\ keyword_embeddings' =
                      [i \in 1..Len(extracted_keywords_list) |->
                          TextEncode(extracted_keywords_list[i])]
               /\ ppc' = "assign" /\ exit' = exit
          ELSE /\ Return("encode")
               /\ UNCHANGED keyword_embeddings
    /\ UNCHANGED <<documents, extracted_keywords_list, kwFailed, assigned,
                   collection, organized>>
    /\ UNCHANGED <<assignVars, modelVars, kwVars, topicVars, chunkVars, ioVars, response, runs>>

\* an assign step whose except branch logs the failure and goes on
AssignStepNoReturn ==
    /\ ppc = "assign"
    /\ \E ok \in BOOLEAN :
          LET r == AssignLabels(keyword_embeddings)
          IN  IF r.outcome = "ok"
              THEN /\ assigned' = [outcome |-> r.outcome, labels |-> r.labels,
                                   subs |-> r.subs, confidences |-> r.confidences]
                   /\ ppc' = "insert"
                   /\ exit' = IF ok THEN exit ELSE "assign"
              ELSE /\ Return("assign")
                   /\ UNCHANGED assigned
    /\ UNCHANGED <<documents, extracted_keywords_list, kwFailed,
                   keyword_embeddings, collection, organized>>
    /\ UNCHANGED <<assignVars, modelVars, kwVars, topicVars, chunkVars, ioVars, response, runs>>

\* topic_modeler.assign_labels(keyword_embeddings), inside its try; the
\* embedding capability may raise while the labels are encoded
AssignStep ==
    /\ ppc = "assign"
    /\ \E ok \in BOOLEAN :
          LET r == AssignLabels(keyword_embeddings)
          IN  IF ok /\ r.outcome = "ok"
              THEN /\ assigned' = [outcome |-> r.outcome, labels |-> r.labels,
                                   subs |-> r.subs, confidences |-> r.confidences]
                   /\ ppc' = "insert" /\ exit' = exit
              ELSE /\ Return("assign")
                   /\ UNCHANGED assigned
    /\ UNCHANGED <<documents, extracted_keywords_list, kwFailed,
                   keyword_embeddings, collection, organized>>
    /\ UNCHANGED <<assignVars, modelVars, kwVars, topicVars, chunkVars, ioVars, response, runs>>

\* db_handler.insert_documents(documents_to_insert), inside its try
InsertStep ==
    /\ ppc = "insert"
    /\ \E ok \in BOOLEAN :
          IF ok
          THEN /\ collection' = Upsert(collection, DocumentsToInsert)
               /\ ppc' = "organize" /\ exit' = exit
          ELSE /\ Return("insert")
               /\ UNCHANGED collection
    /\ UNCHANGED <<documents, extracted_keywords_list, kwFailed,
                   keyword_embeddings, assigned, organized>>
    /\ UNCHANGED <<assignVars, modelVars, kwVars, topicVars, chunkVars, ioVars, response, runs>>

\* the copy of every document into its topic folder, inside its try: the
\* first k copies succeed
OrganizeStep ==
    /\ ppc = "organize"
    /\ \E k \in 0..Len(documents) :
          /\ organized' =
                {[file_name |-> DocumentsToInsert[i].file_name,
                  folder |-> DestFolder(DocumentsToInsert[i])] : i \in 1..k}
          /\ Return(IF k = Len(documents) THEN "done" ELSE "organize")
    /\ UNCHANGED <<documents, extracted_keywords_list, kwFailed,
                   keyword_embeddings, assigned, collection>>
    /\ UNCHANGED <<assignVars, modelVars, kwVars, topicVars, chunkVars, ioVars, response, runs>>

\* the endpoint refuses the request before process_documents is called
RejectRequest ==
    /\ ppc = "idle"
    /\ response = NoResponse
    /\ response' = BadRequest
    /\ ppc' = "rejected"
    /\ UNCHANGED <<documents, extracted_keywords_list, kwFailed,
                   keyword_embeddings, assigned, collection, organized, exit>>
    /\ UNCHANGED <<assignVars, modelVars, kwVars, topicVars, chunkVars, ioVars, runs>>

\* DocumentLoader(log_file=...) raises before anything is loaded (its log
\* file cannot be opened): the exception leaves process_documents
ConstructionRaises ==
    /\ ppc = "idle"
    /\ Return("raised")
    /\ UNCHANGED <<documents, extracted_keywords_list, kwFailed,
                   keyword_embeddings, assigned, collection, organized>>
    /\ UNCHANGED <<assignVars, modelVars, kwVars, topicVars, chunkVars, ioVars,
                   response, runs>>

\* the endpoint answers once process_documents has returned or raised
Respond ==
    /\ ppc = "returned"
    /\ response = NoResponse
    /\ response' = ProcessPredefinedDocuments(exit = "raised")
    /\ UNCHANGED procVars
    /\ UNCHANGED <<assignVars, modelVars, kwVars, topicVars, chunkVars, ioVars, runs>>

Next ==
    \/ LoadDocuments
    \/ ExtractKeywordsStep
    \/ EncodeStep
    \/ AssignStep
    \/ InsertStep
    \/ OrganizeStep
    \/ RejectRequest
    \/ ConstructionRaises
    \/ Respond

Spec == Init /\ [][Next]_vars

-----------------------------------------------------------------------------
(* Calls of the unsupervised path *)

InitTopics ==
    /\ embeddings = <<>> /\ apc = "idle" /\ call = NoCall
    /\ result = NoResult /\ encodeCalls = 0
    /\ KwIdle
    /\ ProcIdle
    /\ ChunkIdle
    /\ tree \in {EmptyTree, MixedTree}
    /\ encoder = EncGeneral
    /\ tpc = "idle"
    /\ self_documents \in DocumentLists
    /\ fit \in Fits(Len(self_documents))
    /\ tcall = [op |-> "none", use_zero_shot |-> FALSE]
    /\ topic_labels = <<>>
    /\ classifier_calls = <<>>
    /\ tresult = NoRun
    /\ csv_files = 0
    /\ topic_name_mapping = <<>>
    /\ topic_names = <<>>
    /\ IoIdle
    /\ response = NoResponse
    /\ runs = 0

\* a direct call of TopicModeler.fit_transform(self_documents)
CallFitTransform ==
    /\ tpc = "idle"
    /\ tcall' = [op |-> "fit_transform", use_zero_shot |-> FALSE]
    /\ tresult' = FitTransform(self_documents, fit)
    /\ tpc' = "done"
    /\ UNCHANGED <<self_documents, fit, topic_labels, classifier_calls,
                   csv_files, topic_name_mapping, topic_names>>
    /\ UNCHANGED <<assignVars, modelVars, kwVars, procVars, chunkVars, ioVars, response, runs>>

\* IntegratedProcessor.run(use_zero_shot), predefined_topics being the main
\* topics of the tree
CallRun ==
    /\ tpc = "idle"
    /\ \E use_zero_shot \in BOOLEAN, info_ok \in BOOLEAN, c \in Classifiers,
          order \in Perms(Len(self_documents)) :
          LET r == Run(self_documents, fit, tree.keys, use_zero_shot,
                       info_ok, c, topic_labels, order)
          IN  /\ r.outcome = "ok" =>
                    IsSorted(r.df, ~use_zero_shot /\ tree.keys # <<>>)
              /\ tcall' = [op |-> "run", use_zero_shot |-> use_zero_shot]
              /\ tresult' = [outcome |-> r.outcome, df |-> r.df,
                             label_column |-> r.label_column, csv |-> r.csv]
              /\ topic_labels' = r.topic_labels
              /\ classifier_calls' = r.calls
              /\ csv_files' = csv_files + (IF r.csv THEN 1 ELSE 0)
    /\ tpc' = "done"
    /\ UNCHANGED <<self_documents, fit, topic_name_mapping, topic_names>>
    /\ UNCHANGED <<assignVars, modelVars, kwVars, procVars, chunkVars, ioVars, response, runs>>

\* AutoTopicModeler.fit_model(self_documents)
CallFitModel ==
    /\ tpc = "idle"
    /\ tcall' = [op |-> "fit_model", use_zero_shot |-> FALSE]
    /\ tresult' = [outcome |-> IF fit.raised THEN "ClusteringError" ELSE "ok"]
    /\ tpc' = IF fit.raised THEN "done" ELSE "fitted"
    /\ UNCHANGED <<self_documents, fit, topic_labels, classifier_calls,
                   csv_files, topic_name_mapping, topic_names>>
    /\ UNCHANGED <<assignVars, modelVars, kwVars, procVars, chunkVars, ioVars, response, runs>>

\* AutoTopicModeler.assign_topic_names(); before fit_model the attributes
\* topic_info and topics do not exist
CallAssignTopicNames ==
    /\ tpc \in {"idle", "fitted"}
    /\ tcall' = [op |-> "assign_topic_names", use_zero_shot |-> FALSE]
    /\ IF tpc = "idle"
       THEN /\ tresult' = [outcome |-> "AttributeError"]
            /\ UNCHANGED <<topic_name_mapping, topic_names>>
       ELSE /\ tresult' = [outcome |-> "ok"]
            /\ topic_name_mapping' = TopicNameMapping(fit)
            /\ topic_names' = TopicNames(TopicNameMapping(fit), fit.topics)
    /\ tpc' = "done"
    /\ UNCHANGED <<self_documents, fit, topic_labels, classifier_calls, csv_files>>
    /\ UNCHANGED <<assignVars, modelVars, kwVars, procVars, chunkVars, ioVars, response, runs>>

NextTopics ==
    \/ CallFitTransform
    \/ CallRun
    \/ CallFitModel
    \/ CallAssignTopicNames

SpecTopics == InitTopics /\ [][NextTopics]_vars

-----------------------------------------------------------------------------
(* Runs of one IntegratedProcessor, one after the other *)

Reruns == {1}       \* the runs made after the first one

\* a processor without predefined topics, constructed on one document
InitRerun ==
    /\ embeddings = <<>> /\ apc = "idle" /\ call = NoCall
    /\ result = NoResult /\ encodeCalls = 0
    /\ KwIdle
    /\ ProcIdle
    /\ ChunkIdle
    /\ IoIdle
    /\ tree = EmptyTree
    /\ encoder = EncGeneral
    /\ tpc = "idle"
    /\ self_documents = << <<" ", "net">> >>
    /\ fit \in Fits(Len(self_documents))
    /\ tcall = [op |-> "none", use_zero_shot |-> FALSE]
    /\ topic_labels = <<>>
    /\ classifier_calls = <<>>
    /\ tresult = NoRun
    /\ csv_files = 0
    /\ topic_name_mapping = <<>>
    /\ topic_names = <<>>
    /\ response = NoResponse
    /\ runs = 0

\* run has returned or raised and is about to be called again on the same
\* processor: the Categorizer keeps its topic_labels, and the clustering
\* capability, fitted anew by the next run, may cluster differently
RunAgain ==
    /\ tpc = "done" /\ tcall.op = "run"
    /\ runs + 1 \in Reruns
    /\ runs' = runs + 1
    /\ tpc' = "idle"
    /\ fit' \in Fits(Len(self_documents))
    /\ UNCHANGED <<self_documents, tcall, topic_labels, classifier_calls,
                   tresult, csv_files, topic_name_mapping, topic_names>>
    /\ UNCHANGED <<assignVars, modelVars, kwVars, procVars, chunkVars, ioVars, response>>

NextRerun ==
    \/ CallRun
    \/ RunAgain

SpecRerun == InitRerun /\ [][NextRerun]_vars

-----------------------------------------------------------------------------
(* Calls of chunk_document *)

MaxWidth == 5       \* chunk_size ranges over 0..MaxWidth

TextLengths == 0..7         \* lengths of the texts handed to chunk_document
Texts == UNION {[1..n -> Characters] : n \in TextLengths}

InitChunk ==
    /\ embeddings = <<>> /\ apc = "idle" /\ call = NoCall
    /\ result = NoResult /\ encodeCalls = 0
    /\ tree = MixedTree
    /\ encoder = EncGeneral
    /\ KwIdle
    /\ ProcIdle
    /\ TopicsIdle
    /\ cpc = "idle"
    /\ text \in Texts
    /\ chunk_size \in 0..MaxWidth
    /\ chunks = <<>>
    /\ IoIdle
    /\ response = NoResponse
    /\ runs = 0

\* chunk_document(text, chunk_size); textwrap raises ValueError for a width
\* that is not positive
CallChunkDocument ==
    /\ cpc = "idle"
    /\ IF chunk_size <= 0
       THEN cpc' = "raised" /\ chunks' = <<>>
       ELSE cpc' = "done" /\ chunks' = ChunkDocument(text, chunk_size)
    /\ UNCHANGED <<text, chunk_size>>
    /\ UNCHANGED <<assignVars, modelVars, kwVars, procVars, topicVars, ioVars, response, runs>>

NextChunk == CallChunkDocument

SpecChunk == InitChunk /\ [][NextChunk]_vars

-----------------------------------------------------------------------------
(* Calls on DocumentLoader instances *)

\* the state the other specifications leave alone
coreVars == <<assignVars, modelVars, kwVars, procVars, topicVars, chunkVars>>

CoreIdle ==
    /\ embeddings = <<>> /\ apc = "idle" /\ call = NoCall
    /\ result = NoResult /\ encodeCalls = 0
    /\ tree = MixedTree
    /\ encoder = EncGeneral
    /\ KwIdle
    /\ ProcIdle
    /\ TopicsIdle
    /\ ChunkIdle

InitLoader ==
    /\ CoreIdle
    /\ LoaderIdle
    /\ DbIdle
    /\ SumIdle
    /\ response = NoResponse
    /\ runs = 0

\* the extensions and method names the callers of the model pass
ExtensionArgs == {<<".", "DAT">>, <<".", "txt">>, <<".", "TXT">>}
MethodNameArgs == {"extract_txt", "extract_zip", "file_names"}

\* DocumentLoader(): a second instance is constructed
NewDocumentLoader ==
    /\ loaders # Instances
    /\ lcalls + 1 \in LoaderCallNumbers
    /\ \E inst \in Instances \ loaders :
          /\ loaders' = loaders \cup {inst}
          /\ file_names' = [file_names EXCEPT ![inst] = <<>>]
          /\ loader_documents' = [loader_documents EXCEPT ![inst] = <<>>]
          /\ lcall' = [NoLoaderCall EXCEPT !.op = "__init__", !.inst = inst,
                                           !.outcome = "returned"]
    /\ lcalls' = lcalls + 1
    /\ UNCHANGED SUPPORTED_EXTENSIONS
    /\ UNCHANGED <<coreVars, dbVars, sumVars, response, runs>>

\* inst.add_supported_extension(extension, method_name)
CallAddSupportedExtension ==
    /\ lcalls + 1 \in LoaderCallNumbers
    /\ \E inst \in loaders, extension \in ExtensionArgs,
          method_name \in MethodNameArgs :
          LET r == AddSupportedExtension(InstanceExtensions(inst), extension,
                                         method_name)
          IN  /\ SUPPORTED_EXTENSIONS' = r.ext_map
              /\ lcall' = [NoLoaderCall EXCEPT
                              !.op = "add_supported_extension", !.inst = inst,
                              !.extension = extension,
                              !.method_name = method_name,
                              !.outcome = r.outcome, !.logged = r.logged]
    /\ lcalls' = lcalls + 1
    /\ UNCHANGED <<loaders, file_names, loader_documents>>
    /\ UNCHANGED <<coreVars, dbVars, sumVars, response, runs>>

\* inst.remove_supported_extension(extension)
CallRemoveSupportedExtension ==
    /\ lcalls + 1 \in LoaderCallNumbers
    /\ \E inst \in loaders, extension \in ExtensionArgs :
          LET r == RemoveSupportedExtension(InstanceExtensions(inst), extension)
          IN  /\ SUPPORTED_EXTENSIONS' = r.ext_map
              /\ lcall' = [NoLoaderCall EXCEPT
                              !.op = "remove_supported_extension", !.inst = inst,
                              !.extension = extension,
                              !.outcome = r.outcome, !.logged = r.logged]
    /\ lcalls' = lcalls + 1
    /\ UNCHANGED <<loaders, file_names, loader_documents>>
    /\ UNCHANGED <<coreVars, dbVars, sumVars, response, runs>>

\* inst.load_documents(folder_path)
CallLoadDocuments ==
    /\ lcalls + 1 \in LoaderCallNumbers
    /\ \E inst \in loaders, folder_path \in Folders :
          LET r == LoaderLoadDocuments(InstanceExtensions(inst), folder_path)
          IN  /\ file_names' = [file_names EXCEPT ![inst] = r.file_names]
              /\ loader_documents' = [loader_documents EXCEPT ![inst] = r.documents]
              /\ lcall' = [NoLoaderCall EXCEPT
                              !.op = "load_documents", !.inst = inst,
                              !.folder_path = folder_path,
                              !.outcome = "returned",
                              !.previous = file_names[inst]]
    /\ lcalls' = lcalls + 1
    /\ UNCHANGED <<SUPPORTED_EXTENSIONS, loaders>>
    /\ UNCHANGED <<coreVars, dbVars, sumVars, response, runs>>

NextLoader ==
    \/ NewDocumentLoader
    \/ CallAddSupportedExtension
    \/ CallRemoveSupportedExtension
    \/ CallLoadDocuments

SpecLoader == InitLoader /\ [][NextLoader]_vars

-----------------------------------------------------------------------------
(* Calls on a DatabaseHandler *)

InitDb ==
    /\ CoreIdle
    /\ LoaderIdle
    /\ DbIdle
    /\ SumIdle
    /\ response = NoResponse
    /\ runs = 0

\* insert_documents(documents); an upsert that fails raises and leaves the
\* collection as it was
CallInsertDocuments ==
    /\ spc = "idle"
    /\ Len(batches) < MaxInserts
    /\ \E n \in InsertSizes : \E kinds \in [1..n -> PayloadKinds] :
          LET docs == InsertBatch(Len(batches) + 1, kinds)
          IN  /\ points' = Upsert(points, docs)
              /\ batches' = Append(batches, docs)
    /\ UNCHANGED <<spc, ranking, total, offset, stat_topics, stat_subtopics, visited>>
    /\ UNCHANGED <<coreVars, loaderVars, sumVars, response, runs>>

\* get_statistics up to its loop: client.count, the empty dicts, offset = 0
CallGetStatistics ==
    /\ spc = "idle"
    /\ \E ok \in BOOLEAN :
          IF ok
          THEN /\ total' = Cardinality(DOMAIN points)
               /\ ranking' \in Rankings(points)
               /\ spc' = "loop"
          ELSE /\ spc' = "raised"
               /\ UNCHANGED <<total, ranking>>
    /\ UNCHANGED <<points, batches, offset, stat_topics, stat_subtopics, visited>>
    /\ UNCHANGED <<coreVars, loaderVars, sumVars, response, runs>>

\* one pass of the while loop: a search, the break on an empty page, the
\* counting of the page and offset += limit
StatisticsPage ==
    /\ spc = "loop"
    /\ \E ok \in BOOLEAN :
          LET search_result == Search(ranking, limit, offset)
          IN  IF ~ok
              THEN /\ spc' = "raised"
                   /\ UNCHANGED <<offset, stat_topics, stat_subtopics, visited>>
              ELSE IF search_result = <<>>
              THEN /\ spc' = "done"
                   /\ UNCHANGED <<offset, stat_topics, stat_subtopics, visited>>
              ELSE /\ stat_topics' =
                          CountPage(stat_topics, points, search_result, "topic")
                   /\ stat_subtopics' =
                          CountPage(stat_subtopics, points, search_result, "sub_topic")
                   /\ visited' = visited \o search_result
                   /\ offset' = NextOffset(offset)
                   /\ spc' = spc
    /\ UNCHANGED <<points, batches, ranking, total>>
    /\ UNCHANGED <<coreVars, loaderVars, sumVars, response, runs>>

NextDb ==
    \/ CallInsertDocuments
    \/ CallGetStatistics
    \/ StatisticsPage

SpecDb == InitDb /\ [][NextDb]_vars

\* a get_statistics call that has begun is run to its end
SpecDbFair == SpecDb /\ WF_vars(StatisticsPage)

-----------------------------------------------------------------------------
(* Calls of summarize *)

InitSum ==
    /\ CoreIdle
    /\ LoaderIdle
    /\ DbIdle
    /\ sumpc = "idle"
    /\ texts \in UNION {[1..n -> SummaryInputs] : n \in 0..MaxTexts}
    /\ generated = <<>>
    /\ summaries = <<>>
    /\ response = NoResponse
    /\ runs = 0

\* summarize(texts)
CallSummarize ==
    /\ sumpc = "idle"
    /\ \E gen \in [1..Len(texts) -> Generations] :
          LET r == Summarize(gen)
          IN  /\ generated' = gen
              /\ summaries' = r.summaries
              /\ sumpc' = IF r.outcome = "ok" THEN "done" ELSE "raised"
    /\ UNCHANGED texts
    /\ UNCHANGED <<coreVars, loaderVars, dbVars, response, runs>>

NextSum == CallSummarize

SpecSum == InitSum /\ [][NextSum]_vars

-----------------------------------------------------------------------------
(* Properties of the label assigner *)

Flat == apc = "done" /\ call.op = "assign_predefined_labels"
Hier == apc = "done" /\ call.op = "assign_labels"
Docs == 1..Len(embeddings)

\* the cosine similarity of a document embedding and a label's embedding
CosSim(e, label) == NormDot(Normalize(e), Normalize(encoder[label]))

\* -1 <= s <= 1 (false of NaN)
InUnit(s) == ~IsNaN(s) /\ Abs(s[1]) <= s[2]

\* C1: for a non-empty label list and a batch of one embedding,
\* assign_predefined_labels returns a label of the list and a score in [-1, 1].
C1_LabelInSetScoreInUnit ==
    (Flat /\ call.topics # <<>> /\ Len(embeddings) = 1) =>
        /\ result.outcome = "ok"
        /\ Len(result.labels) = 1 /\ Len(result.confidences) = 1
        /\ result.labels[1] \in Range(call.topics)
        /\ InUnit(result.confidences[1])

\* C2: assign_predefined_labels returns one (label, score) per input embedding,
\* and the i-th is the one a call on the i-th embedding alone returns.
C2_OnePerInputInOrder ==
    (Flat /\ result.outcome = "ok") =>
        /\ Len(result.labels) = Len(embeddings)
        /\ Len(result.confidences) = Len(embeddings)
        /\ \A i \in Docs :
              LET one == AssignPredefinedLabels(<<embeddings[i]>>, call.topics)
              IN  /\ result.labels[i] = one.labels[1]
                  /\ result.confidences[i] = one.confidences[1]

\* a batch of two documents whose results differ
C2_Witness ==
    /\ Flat /\ result.outcome = "ok" /\ Len(embeddings) = 2
    /\ result.labels[1] # result.labels[2]
    /\ result.confidences[1] # result.confidences[2]

\* label j of the list has the maximum similarity to e: every label's
\* similarity is <= its own (no similarity is NaN)
IsMax(e, topics, j) ==
    \A k \in 1..Len(topics) : ScoreLE(CosSim(e, topics[k]), CosSim(e, topics[j]))

MaxSet(e, topics) == {j \in 1..Len(topics) : IsMax(e, topics, j)}

Least(S) == CHOOSE j \in S : \A k \in S : j <= k

\* C3: when two or more labels have the same maximum similarity to a document,
\* the first of them in the input label order is chosen, at the main level and
\* at the subcategory level.
C3_TieFirstOccurrence ==
    /\ (Flat /\ result.outcome = "ok") =>
          \A i \in Docs :
             Cardinality(MaxSet(embeddings[i], call.topics)) >= 2 =>
                result.labels[i] = call.topics[Least(MaxSet(embeddings[i], call.topics))]
    /\ (Hier /\ result.outcome = "ok") =>
          \A i \in Docs :
             LET sl == SubTopicList(result.labels[i])
             IN  /\ Cardinality(MaxSet(embeddings[i], tree.keys)) >= 2 =>
                       result.labels[i] = tree.keys[Least(MaxSet(embeddings[i], tree.keys))]
                 /\ Cardinality(MaxSet(embeddings[i], sl)) >= 2 =>
                       result.subs[i] = sl[Least(MaxSet(embeddings[i], sl))]

\* a tie at the main level and a tie at the subcategory level, for one document
C3_Witness ==
    /\ Hier /\ result.outcome = "ok"
    /\ \E i \in Docs :
          /\ Cardinality(MaxSet(embeddings[i], tree.keys)) >= 2
          /\ Cardinality(MaxSet(embeddings[i], SubTopicList(result.labels[i]))) >= 2

\* the call was given an empty label set
EmptyLabelSet == apc = "done" /\ call.op # "none" /\ call.topics = <<>>

\* C4: a call with an empty label set fails at once: it raises before the
\* embedding capability is invoked and produces no assignment.
C4_EmptyLabelSetFails ==
    EmptyLabelSet =>
        /\ result.outcome = "ValueError"
        /\ encodeCalls = 0
        /\ result.labels = <<>> /\ result.subs = <<>> /\ result.confidences = <<>>

\* both methods reach the case, on a batch that holds documents
C4_Witness == Flat /\ EmptyLabelSet /\ Len(embeddings) = 2

C4_WitnessHier == Hier /\ EmptyLabelSet /\ Len(embeddings) > 0

\* a document embedding or a label embedding of the call has zero norm
ZeroNormInput ==
    \/ \E i \in Docs : NormSq(embeddings[i]) = 0
    \/ \E j \in 1..Len(call.topics) : NormSq(encoder[call.topics[j]]) = 0

\* C5: a call whose document or label embeddings include a zero-norm vector
\* fails (InvalidEmbedding) instead of returning labels and scores.
C5_ZeroNormFails ==
    (apc = "done" /\ call.op # "none" /\ call.topics # <<>>
        /\ Len(embeddings) > 0 /\ ZeroNormInput) =>
        result.outcome \notin {"ok", "none"}

ScaleBatch(E, c) == [i \in 1..Len(E) |-> <<c * E[i][1], c * E[i][2]>>]

\* C6: multiplying every document embedding of the batch by one positive
\* constant changes neither the labels nor the scores returned.
C6_ScaleInvariant ==
    (Flat /\ result.outcome = "ok") =>
        \A c \in 1..MaxScale :
            LET scaled == AssignPredefinedLabels(ScaleBatch(embeddings, c), call.topics)
            IN  /\ scaled.outcome = "ok"
                /\ scaled.labels = result.labels
                /\ scaled.confidences = result.confidences

\* a full batch of non-zero documents with a score strictly between 0 and 1
C6_Witness ==
    /\ Flat /\ result.outcome = "ok" /\ Len(embeddings) = 2
    /\ \A i \in Docs : NormSq(embeddings[i]) > 0
    /\ \E i \in Docs : ~IsNaN(result.confidences[i])
                        /\ 0 < result.confidences[i][1]
                        /\ result.confidences[i][1] < result.confidences[i][2]

\* C7: assign_labels returns, per document, a main label that is a key of the
\* tree and a sub label of that key's subcategory list, or no sub label when
\* that list is empty.
C7_SubOfAssignedMain ==
    (Hier /\ result.outcome = "ok") =>
        /\ Len(result.labels) = Len(embeddings)
        /\ Len(result.subs) = Len(embeddings)
        /\ \A i \in Docs :
              /\ result.labels[i] \in Range(tree.keys)
              /\ IF tree.subs[result.labels[i]] = <<>>
                 THEN result.subs[i] = NoSub
                 ELSE result.subs[i] \in Range(tree.subs[result.labels[i]])

\* one document under a key with subcategories, one under a key without
C7_Witness ==
    /\ Hier /\ result.outcome = "ok"
    /\ \E i, j \in Docs :
          /\ result.subs[i] = NoSub
          /\ result.subs[j] \in Range(tree.subs[result.labels[j]])

\* the documents are spread over two keys that both have subcategories
C7_WitnessTwoKeys ==
    /\ Hier /\ result.outcome = "ok"
    /\ \E i, j \in Docs :
          /\ result.labels[i] # result.labels[j]
          /\ result.subs[i] # NoSub /\ result.subs[j] # NoSub

\* C8: the confidence assign_labels returns for a document is the similarity
\* of the document to its assigned main label, whatever the sub-level score.
C8_ConfidenceIsMainScore ==
    (Hier /\ result.outcome = "ok") =>
        /\ Len(result.confidences) = Len(embeddings)
        /\ \A i \in Docs :
              result.confidences[i] = CosSim(embeddings[i], result.labels[i])

\* a document with no subcategory and a non-zero confidence, and a document
\* whose sub-level score differs from its confidence
C8_Witness ==
    /\ Hier /\ result.outcome = "ok"
    /\ \E i, j \in Docs :
          /\ result.subs[i] = NoSub
          /\ result.confidences[i] # Zero /\ ~IsNaN(result.confidences[i])
          /\ result.subs[j] # NoSub
          /\ CosSim(embeddings[j], result.subs[j]) # result.confidences[j]

-----------------------------------------------------------------------------
(* Properties of the keyword extractor and of the batch driver *)

FirstIndex(xs, x) ==
    CHOOSE i \in 1..Len(xs) : xs[i] = x /\ \A j \in 1..(i - 1) : xs[j] # x

\* C9: the sequence extract_keywords returns holds every phrase extracted from
\* the chunks exactly once, in the order of the phrases' first occurrences in
\* the chunk-order concatenation; no extracted phrase is missing.
C9_DedupeFirstOccurrence ==
    kpc = "done" =>
        LET out == kwResult.keywords
        IN  /\ \A i, j \in 1..Len(out) : i # j => out[i] # out[j]
            /\ Range(out) = Range(all_keywords)
            /\ \A i, j \in 1..Len(out) :
                  i < j => FirstIndex(all_keywords, out[i])
                              < FirstIndex(all_keywords, out[j])

\* C10: a failure of the keyphrase capability for a document gives that
\* document an empty keyword string, raises nothing, and process_documents
\* goes on to extract the keywords of every remaining document.
C10_ExtractionFailureNeverAborts ==
    /\ exit # "keywords"
    /\ \A i \in kwFailed :
          i <= Len(extracted_keywords_list) /\ extracted_keywords_list[i] = <<>>
    /\ ppc \in {"encode", "assign", "insert", "organize"} =>
          Len(extracted_keywords_list) = Len(documents)
    /\ (ppc = "returned" /\ exit # "no_documents") =>
          Len(extracted_keywords_list) = Len(documents)

\* the capability failed for the first document, and the keywords of the
\* second were extracted after it
C10_Witness ==
    /\ kwFailed = {1}
    /\ Len(documents) = 2 /\ Len(extracted_keywords_list) = 2
    /\ extracted_keywords_list[2] # <<>>
    /\ ppc = "encode"

\* C11: when the capability fails for one chunk of a multi-chunk document,
\* the phrases already extracted from the other chunks of that document are
\* still present in the result of extract_keywords.
C11_FailedChunkOnly ==
    (/\ kpc = "done"
     /\ Len(chunkOutcomes) >= 2
     /\ \E c \in 1..Len(chunkOutcomes) : chunkOutcomes[c].raised) =>
        Range(all_keywords) \subseteq Range(kwResult.keywords)

\* C16: the labeling step of process_documents is fail-fast: when the
\* embedding call or the label assignment fails, the run returns with no
\* document handed to insert_documents and no file copied; insertion starts
\* only after every document of the batch has a label.
C16_LabelingFailFast ==
    /\ exit \in {"encode", "assign"} =>
          ppc = "returned" /\ collection = <<>> /\ organized = {}
    /\ (ppc \in {"insert", "organize"} \/ collection # <<>> \/ organized # {}) =>
          /\ assigned.outcome = "ok"
          /\ Len(assigned.labels) = Len(documents)
          /\ Len(assigned.subs) = Len(documents)

\* the label assignment of a two-document batch failed after the keywords of
\* both documents had been extracted and encoded
C16_Witness ==
    /\ exit = "assign" /\ ppc = "returned"
    /\ Len(documents) = 2 /\ Len(keyword_embeddings) = 2
    /\ tree.keys # <<>>
    /\ collection = <<>> /\ organized = {}

\* the main labels assign_labels gave to some document whose sub-label list
\* is not empty
LabelsWithSubs ==
    {result.labels[i] : i \in {j \in 1..Len(result.labels) :
                                  tree.subs[result.labels[j]] # <<>>}}

\* C17: one assign_labels call invokes the embedding capability once per
\* label list it matches against (the main labels, and the sub-label list of
\* each assigned main label), so the number of its encode calls does not grow
\* with the number of documents in the batch.
C17_EncodeCallsPerBatch ==
    (Hier /\ result.outcome = "ok") =>
        encodeCalls <= 1 + Cardinality(LabelsWithSubs)

-----------------------------------------------------------------------------
(* Properties of the unsupervised path *)

RunDone == tpc = "done" /\ tcall.op = "run"
FitTransformDone == tpc = "done" /\ tcall.op = "fit_transform"
NamesDone ==
    tpc = "done" /\ tcall.op = "assign_topic_names" /\ tresult.outcome = "ok"

\* C12: on the unsupervised path a zero-document batch is handled without
\* error and gives an empty result, and a one-document batch on which no
\* capability fails gives exactly one assignment (fit_transform and run).
C12_ZeroAndOneDocumentBatches ==
    /\ FitTransformDone =>
          /\ Len(self_documents) = 0 =>
                tresult.outcome = "ok" /\ tresult.topics = <<>>
          /\ (Len(self_documents) = 1 /\ ~fit.raised) =>
                tresult.outcome = "ok" /\ Len(tresult.topics) = 1
    /\ RunDone =>
          /\ Len(self_documents) = 0 =>
                tresult.outcome = "ok" /\ tresult.df = <<>>
          /\ (Len(self_documents) = 1 /\ tresult.outcome = "ok") =>
                Len(tresult.df) = 1

\* C13: every document whose cluster id is the sentinel -1 gets the fixed
\* no-topic name, whatever the capability reports for cluster -1: "No Topic"
\* from assign_topic_names, and the out-of-category label from a zero-shot run.
C13_SentinelGetsNoTopicName ==
    /\ NamesDone =>
          \A i \in 1..Len(fit.topics) :
              fit.topics[i] = Sentinel => topic_names[i] = NoTopic
    /\ (RunDone /\ tcall.use_zero_shot /\ tresult.outcome = "ok") =>
          \A k \in 1..Len(tresult.df) :
              tresult.df[k].Topic = Sentinel =>
                  tresult.df[k].Label = OutOfCategory

\* the run took one of the branches that label by cluster
ClusterRun ==
    /\ RunDone /\ tresult.outcome = "ok"
    /\ tcall.use_zero_shot \/ tree.keys = <<>>

\* C14: in the unsupervised path the confidence reported for a document is
\* the probability the capability gave that document for its own assigned
\* cluster, and 0 when the document is unassigned (cluster id -1).
C14_ConfidenceIsOwnClusterProbability ==
    ClusterRun =>
        \A k \in 1..Len(tresult.df) :
            LET r == tresult.df[k]
            IN  r.Confidence =
                    IF r.Topic = Sentinel THEN 0
                    ELSE fit.probabilities[r.Document][r.Topic + 1]

\* C15: when the clustering capability throws during fit, the error
\* propagates out of fit_transform and out of run: run assigns no label,
\* calls no classifier, returns no table and writes no result file.
C15_ClusteringFailureIsFatal ==
    (tpc = "done" /\ fit.raised /\ ValidIndices(self_documents, 1) # <<>>) =>
        /\ tcall.op = "fit_transform" =>
              tresult.outcome = "ClusteringError" /\ tresult.topics = <<>>
        /\ tcall.op = "run" =>
              /\ tresult.outcome = "ClusteringError"
              /\ tresult.df = <<>> /\ ~tresult.csv /\ csv_files = 0
              /\ topic_labels = <<>> /\ classifier_calls = <<>>

\* a run on two documents with text, during which the capability threw
C15_Witness ==
    /\ RunDone /\ fit.raised
    /\ Len(self_documents) = 2 /\ Len(ValidIndices(self_documents, 1)) = 2
    /\ tresult.outcome = "ClusteringError"

\* the keyword tokens of a cluster, most significant first
Tokens(id) == fit.vocab[id]

\* C18 as stated: in default mode the display name of a non-sentinel cluster
\* is its 2nd and 3rd most significant keyword tokens joined by a space.
C18_NameIsSecondAndThirdToken ==
    NamesDone =>
        \A id \in DOMAIN topic_name_mapping \ {Sentinel} :
            Len(Tokens(id)) >= 3 =>
                topic_name_mapping[id] =
                    JoinWith(" ", <<Tokens(id)[2], Tokens(id)[3]>>)

\* C18, amended: in default mode the display name of a non-sentinel cluster
\* is the 2nd and 3rd underscore-separated fields of the cluster's Name joined
\* by a space; the 1st field is the cluster id, so the name is the 1st and 2nd
\* most significant keyword tokens whenever these two hold no underscore.
C18_NameIsFirstAndSecondToken ==
    NamesDone =>
        \A id \in DOMAIN topic_name_mapping \ {Sentinel} :
            LET fields == Split(TopicInfoName(fit, id), "_")
            IN  /\ Len(fields) >= 3 =>
                      topic_name_mapping[id] =
                          JoinWith(" ", <<fields[2], fields[3]>>)
                /\ (/\ Len(Tokens(id)) >= 2
                    /\ \A t \in 1..2 : "_" \notin Range(Tokens(id)[t])) =>
                      topic_name_mapping[id] =
                          JoinWith(" ", <<Tokens(id)[1], Tokens(id)[2]>>)

\* both clusters were named: cluster 0 by its first two tokens, cluster 1,
\* whose second token holds an underscore, by its first token and a part of
\* its second
C18_Witness ==
    /\ NamesDone
    /\ DOMAIN topic_name_mapping = {0, 1}
    /\ topic_name_mapping[0] = <<"net", " ", "key">>
    /\ topic_name_mapping[1] = <<"data", " ", "loss", " ", "e">>
    /\ Len(topic_names) = 2

\* the classifier call made for a cluster, if one was made
CallsFor(id) ==
    {k \in 1..Len(classifier_calls) : classifier_calls[k].topic_id = id}

\* C19: in zero-shot mode the name of each non-sentinel cluster is the
\* top-ranked label of the classifier's answer to the cluster's top keywords
\* joined by blanks as text, with those keywords as candidate labels; when the
\* answer holds no label the name is the generated name of that cluster's id.
C19_ZeroShotNameIsTopLabel ==
    (/\ RunDone /\ tcall.use_zero_shot /\ tresult.outcome = "ok"
     /\ self_documents # <<>>) =>
        \A id \in Range(TopicInfoIds(fit)) \ {Sentinel} :
            /\ Cardinality(CallsFor(id)) = 1
            /\ \A k \in CallsFor(id) :
                  LET made == classifier_calls[k]
                      top == Slice(Tokens(id), 0, TopWords)
                  IN  /\ made.candidate_labels = top
                      /\ made.sequences = JoinWith(" ", top)
                      /\ topic_labels[id] =
                            IF made.labels # <<>> THEN made.labels[1]
                            ELSE GeneratedName(id)

\* a zero-shot run in which the classifier ranked the second keyword of
\* cluster 0 first and returned no label for cluster 1
C19_Witness ==
    /\ RunDone /\ tcall.use_zero_shot /\ tresult.outcome = "ok"
    /\ Len(classifier_calls) = 2
    /\ Len(classifier_calls[2].candidate_labels) = TopWords
    /\ topic_labels[0] = <<"key">>
    /\ topic_labels[1] = GeneratedName(1)
    /\ \E k \in 1..Len(tresult.df) : tresult.df[k].Label = <<"key">>

-----------------------------------------------------------------------------
(* Properties of chunk_document *)

IsInk(c) == c # " "

\* the characters of a text that are not blanks, in order
Ink(s) == SelectSeq(s, IsInk)

\* the position in s of its c-th character that is not a blank
InkPos(s, c) ==
    CHOOSE p \in 1..Len(s) : s[p] # " " /\ Len(Ink(SubSeq(s, 1, p))) = c

\* the positions p of the text after which a chunk ends while the word goes
\* on at p + 1: the breaks inside a word
BreaksInsideWords ==
    LET counts == {Len(Ink(Concat(SubSeq(chunks, 1, k)))) :
                      k \in 1..(Len(chunks) - 1)}
    IN  {InkPos(text, c) : c \in counts \ {0}} \cap
        {p \in 1..(Len(text) - 1) : text[p] # " " /\ text[p + 1] # " "}

\* the word (longest run without a blank) around position p
WordStart(s, p) ==
    CHOOSE i \in 1..p :
        /\ \A k \in i..p : s[k] # " "
        /\ i = 1 \/ s[i - 1] = " "
WordAt(s, p) == SubSeq(s, WordStart(s, p), RunEnd(s, p, Characters \ {" "}))

\* the indivisible piece of the text around position p: letters with the
\* hyphen that follows them, or a dash
PieceLen(s, p) ==
    LET cs == SplitChunks(s)
        ends == [k \in 0..Len(cs) |-> Len(Concat(SubSeq(cs, 1, k)))]
        k == CHOOSE j \in 1..Len(cs) : ends[j - 1] < p /\ p <= ends[j]
    IN  IF p = ends[k] THEN 0 ELSE Len(cs[k])

\* C20 as stated: the chunks of chunk_document have at most chunk_size
\* characters each, hold the characters of the words of the text in their
\* order, none lost or duplicated, and a chunk ends inside a word only when
\* that word alone is longer than chunk_size.
C20_ChunksBreakOnlyLongWords ==
    cpc = "done" =>
        /\ \A k \in 1..Len(chunks) : Len(chunks[k]) <= chunk_size
        /\ Ink(Concat(chunks)) = Ink(text)
        /\ \A p \in BreaksInsideWords : Len(WordAt(text, p)) > chunk_size

\* C20, amended: the chunks have at most chunk_size characters each and hold
\* the characters of the words in their order, none lost or duplicated; a
\* chunk ends inside a word only beside a hyphen (after the hyphen of a
\* hyphenated word, or beside a dash of several hyphens), or inside a piece
\* of the word that alone is longer than chunk_size; a word without a hyphen
\* is broken only when it is longer than chunk_size.
C20_ChunksBreakAtHyphensOrLongPieces ==
    cpc = "done" =>
        /\ \A k \in 1..Len(chunks) : Len(chunks[k]) <= chunk_size
        /\ Ink(Concat(chunks)) = Ink(text)
        /\ \A p \in BreaksInsideWords :
              /\ \/ PieceLen(text, p) > chunk_size
                 \/ /\ PieceLen(text, p) = 0
                    /\ text[p] = "-" \/ text[p + 1] = "-"
              /\ "-" \notin Range(WordAt(text, p)) =>
                    Len(WordAt(text, p)) > chunk_size

\* a hyphenated word of five characters is broken after its hyphen although
\* chunk_size is five
C20_Witness ==
    /\ cpc = "done"
    /\ text = <<"a", " ", "b", "b", "-", "a", "a">>
    /\ chunk_size = 5
    /\ chunks = << <<"a", " ", "b", "b", "-">>, <<"a", "a">> >>

-----------------------------------------------------------------------------
(* Properties of DocumentLoader *)

\* C21: add_supported_extension raises AttributeError when the named
\* extraction method does not exist on the loader, and then the
\* extension-to-method mapping is left unchanged.
C21_UnknownMethodRaises ==
    (lcall.op = "add_supported_extension" /\ ~HasAttr(lcall.method_name)) =>
        /\ lcall.outcome = "AttributeError"
        /\ Lookup(SUPPORTED_EXTENSIONS, Lower(lcall.extension), "none")
              # lcall.method_name

\* C28: add_supported_extension and remove_supported_extension called on one
\* instance change only the mapping of that instance: what every other
\* instance, constructed already or later, accepts in load_documents is
\* unchanged by the call.
C28_OtherInstancesUnaffected ==
    [][(lcalls' # lcalls
        /\ lcall'.op \in {"add_supported_extension", "remove_supported_extension"})
       => \A j \in Instances \ {lcall'.inst} : Accepted(j)' = Accepted(j)]_vars

\* an entry of a folder that load_documents loads under the mapping ext_map
Loadable(e, ext_map) ==
    /\ e.is_file
    /\ Lower(SplitExt(e.filename)) \in DOMAIN ext_map
    /\ ~Extract(ext_map[Lower(SplitExt(e.filename))], e).raised
    /\ \E i \in DOMAIN e.text : e.text[i] # " "

\* the listing of the folder handed to the last load_documents call
Listing == IF lcall.folder_path.isdir THEN lcall.folder_path.listing ELSE <<>>

\* C29: after a load_documents call file_names and documents have the same
\* length and file_names[i] is documents[i].file_name; the lists hold exactly
\* the files of the folder of that call that are regular files with a
\* supported extension, an extraction that did not raise and a text that is
\* not blank, each once and in listing order, whatever an earlier call
\* loaded and whatever file of the folder failed.
C29_LoadedListsAgree ==
    lcall.op = "load_documents" =>
        LET names == file_names[lcall.inst]
            docs == loader_documents[lcall.inst]
            kept == {k \in DOMAIN Listing :
                        Loadable(Listing[k], InstanceExtensions(lcall.inst))}
        IN  /\ Len(names) = Len(docs)
            /\ \A i \in DOMAIN names : names[i] = docs[i].file_name
            /\ Len(names) = Cardinality(kept)
            /\ \A i \in DOMAIN names :
                  \E k \in kept : Listing[k].filename = names[i]
            /\ \A k \in kept :
                  \E i \in DOMAIN names : names[i] = Listing[k].filename
            /\ \A i, j \in DOMAIN names :
                  i < j => \E k, l \in kept :
                              /\ k < l
                              /\ Listing[k].filename = names[i]
                              /\ Listing[l].filename = names[j]

\* a load_documents call on an instance that held a file of an earlier call:
\* the folder lists a file whose extraction raises and, after it, a file that
\* is loaded; the earlier file is gone
C29_Witness ==
    /\ lcall.op = "load_documents"
    /\ lcall.previous # <<>>
    /\ \A i \in DOMAIN lcall.previous :
          \A k \in DOMAIN Listing : Listing[k].filename # lcall.previous[i]
    /\ \E k, l \in DOMAIN Listing :
          /\ k < l
          /\ Listing[k].is_file
          /\ Lower(SplitExt(Listing[k].filename)) \in DOMAIN SUPPORTED_EXTENSIONS
          /\ Extract(SUPPORTED_EXTENSIONS[Lower(SplitExt(Listing[k].filename))],
                     Listing[k]).raised
          /\ file_names[lcall.inst] = <<Listing[l].filename>>

-----------------------------------------------------------------------------
(* Properties of the summarizer *)

\* C22: summarize returns exactly one summary per input text, in input order
\* (the summary of an empty text is empty), and when the summarization of
\* some text fails it raises instead of returning a shorter list.
C22_OneSummaryPerText ==
    /\ sumpc = "done" =>
          /\ Len(summaries) = Len(texts)
          /\ \A i \in DOMAIN texts :
                /\ summaries[i] = generated[i].summary_text
                /\ texts[i] = <<>> => summaries[i] = <<>>
    /\ (sumpc # "idle" /\ \E i \in DOMAIN generated : generated[i].raised) =>
          sumpc = "raised" /\ summaries = <<>>

-----------------------------------------------------------------------------
(* The subcategory level of assign_labels against the grouped assigner *)

\* the positions of the documents that got the main label, in batch order
GroupOf(main_label) ==
    SelectSeq([j \in Docs |-> j], LAMBDA j : result.labels[j] = main_label)

\* the label assigner run on the group of a main label, restricted to the
\* subcategory list of that label
GroupedSubLabels(main_label) ==
    AssignPredefinedLabels([k \in 1..Len(GroupOf(main_label)) |->
                               embeddings[GroupOf(main_label)[k]]],
                           SubTopicList(main_label))

\* the sub label assign_labels gave document i is the one the grouped run
\* gives it
SubLabelIsGrouped(i) ==
    LET main_label == result.labels[i]
        g == GroupedSubLabels(main_label)
        k == CHOOSE k \in 1..Len(GroupOf(main_label)) : GroupOf(main_label)[k] = i
    IN  g.outcome = "ok" /\ result.subs[i] = g.labels[k]

\* C23: the sub label assign_labels computes document by document is the one
\* obtained by grouping the documents by main label and running the label
\* assigner on each group restricted to that label's subcategory list: for
\* every document it is the first element of the list that has the maximum
\* cosine similarity to the document.
C23_SubLabelIsGroupedFirstMax ==
    (Hier /\ result.outcome = "ok") =>
        \A i \in Docs :
            LET sl == SubTopicList(result.labels[i])
            IN  sl # <<>> =>
                   /\ SubLabelIsGrouped(i)
                   /\ MaxSet(embeddings[i], sl) # {}
                   /\ result.subs[i] = sl[Least(MaxSet(embeddings[i], sl))]

-----------------------------------------------------------------------------
(* The zero-shot classifier and the names kept by the Categorizer *)

\* C25: run invokes the zero-shot classifier only when use_zero_shot is true:
\* with use_zero_shot false it labels from the predefined topics when they
\* are supplied, and otherwise assigns automatic labels with no call of the
\* classifier.
C25_ClassifierOnlyInZeroShotMode ==
    (RunDone /\ ~tcall.use_zero_shot) =>
        /\ classifier_calls = <<>>
        /\ (tree.keys # <<>> /\ tresult.outcome = "ok") =>
              \A k \in 1..Len(tresult.df) :
                  tresult.df[k].Label \in Range(tree.keys)


\* C24: after any sequence of assign_automatic_labels calls on one
\* Categorizer, topic_labels holds names only for the cluster ids of the
\* topic info of the most recent call, and run labels a document only with a
\* name written for its cluster by that call.
C24_NoStaleTopicLabels ==
    (RunDone /\ tresult.outcome = "ok") =>
        /\ DOMAIN topic_labels \subseteq Range(TopicInfoIds(fit))
        /\ \A k \in 1..Len(tresult.df) :
              tresult.df[k].Topic \in Range(TopicInfoIds(fit))

-----------------------------------------------------------------------------
(* Properties of the DatabaseHandler *)

RECURSIVE SumLen(_, _)
\* the number of documents of the first n batches
SumLen(bs, n) == IF n = 0 THEN 0 ELSE Len(bs[n]) + SumLen(bs, n - 1)

\* C26: after any sequence of insert_documents calls on one collection every
\* document of every inserted batch is still stored: a later batch neither
\* overwrites nor removes a record of an earlier one, and the number of
\* stored records is the total number of documents inserted.
C26_InsertsAccumulate ==
    /\ \A b \in DOMAIN batches : \A i \in DOMAIN batches[b] :
          \E id \in DOMAIN points : points[id] = batches[b][i]
    /\ Cardinality(DOMAIN points) = SumLen(batches, Len(batches))

RECURSIVE SumCounts(_, _)
\* the sum of the counts of the dict d over the keys ks
SumCounts(d, ks) ==
    IF ks = {} THEN 0
    ELSE LET k == CHOOSE k \in ks : TRUE
         IN  d[k] + SumCounts(d, ks \ {k})

\* C27 (what the loop has done when it ends): every stored record was
\* visited exactly once, and the per-topic counts and the per-subtopic counts
\* both sum to total_documents.
StatisticsCountEveryRecordOnce ==
    spc = "done" =>
        /\ Len(visited) = Cardinality(DOMAIN points)
        /\ \A id \in DOMAIN points :
              Cardinality({k \in DOMAIN visited : visited[k] = id}) = 1
        /\ total = Cardinality(DOMAIN points)
        /\ SumCounts(stat_topics, DOMAIN stat_topics) = total
        /\ SumCounts(stat_subtopics, DOMAIN stat_subtopics) = total
        /\ \A t \in DOMAIN stat_topics :
              stat_topics[t] =
                  Cardinality({id \in DOMAIN points : points[id].topic = t})
        /\ \A t \in DOMAIN stat_subtopics :
              stat_subtopics[t] =
                  Cardinality({id \in DOMAIN points : points[id].sub_topic = t})

\* C27: the pagination loop of get_statistics terminates for every finite
\* collection (unless a search raises), and when it ends it has visited
\* every stored record exactly once, so that the per-topic counts and the
\* per-subtopic counts sum to total_documents.
C27_PaginationTerminatesAndCounts ==
    /\ []StatisticsCountEveryRecordOnce
    /\ (spc = "loop") ~> (spc \in {"done", "raised"})

\* the loop ended after two pages that held records, on a collection of
\* three records under two topics
C27_Witness ==
    /\ spc = "done"
    /\ Cardinality(DOMAIN points) = 3
    /\ offset = 2 * limit
    /\ Len(visited) = 3
    /\ Cardinality(DOMAIN stat_topics) = 2
    /\ Len(batches) = 2

-----------------------------------------------------------------------------
(* Properties of the endpoint POST /process/predefined *)

\* C30: the endpoint returns its success message only when the batch was
\* labelled and inserted into the vector store: whenever keyword extraction,
\* embedding, label assignment or insertion fails inside process_documents,
\* or no document is loaded, it answers with HTTP 500.
C30_SuccessOnlyWhenInserted ==
    /\ response.status = 200 =>
          /\ assigned.outcome = "ok"
          /\ documents # <<>>
          /\ collection = Upsert(<<>>, DocumentsToInsert)
    /\ (response # NoResponse
        /\ exit \in {"no_documents", "keywords", "encode", "assign", "insert"}) =>
          response.status = 500

=============================================================================
